---------------------------- MODULE Spec2Model ----------------------------
(***************************************************************************)
(* A model of the DWG -> SVG renderer of libredwg: the library entry       *)
(* points of src/src/dwg_svg_api.c (dwg_to_svg, dwg_data_to_svg,           *)
(* dwg_write_svg, the string-buffer and file sinks) and the renderer of    *)
(* src/programs/dwg2SVG.c (extents pass, entity emitters, block emitter,   *)
(* top-level driver) with its file-scope variables.                        *)
(*                                                                         *)
(* Conventions.                                                            *)
(*  - A C double is a pair <<class, value>>: class 0 is a finite number    *)
(*    with an integer value, 1 is +INFINITY, 2 is -INFINITY, 3 is NaN.     *)
(*    Inputs are chosen so that every finite result is an integer; the     *)
(*    sign of zero is not modelled.                                        *)
(*  - An angle is counted in quarter turns (1 = M_PI / 2).                 *)
(*  - A C string is a sequence of one-character strings.                   *)
(*  - One printf call of the renderer is one chunk handed to the sink.     *)
(***************************************************************************)
EXTENDS Integers, Sequences, FiniteSets, TLC

VARIABLES
  pc,                  \* position of the (single) thread of control
  api,                 \* the entry point called last and its arguments
  error,               \* dwg_svg_render_file: result of dwg_read_file (-1: not run)
  dwg,                 \* the Dwg_Data being rendered (index into DWGS, 0 = none)
  mspace,              \* static int mspace
  in_block_definition, \* static int in_block_definition
  block_base,          \* static double block_base_x, block_base_y
  model_ext,           \* model_xmin, model_ymin, model_xmax, model_ymax
  page,                \* page_width, page_height
  g_svg_writer,        \* the active writer callback ("NULL", "buffer", "file")
  buf,                 \* dwg_svg_buffer of the running string API call
  file,                \* the chunks fwrite put into the FILE of dwg_write_svg
  handed,              \* history: every chunk the renderer handed to the sink
  cur,                 \* locals of output_SVG / output_BLOCK_HEADER
  caller,              \* the caller's svg_out / svg_len variables and the result
  env,                 \* the run: calls started and allowed, inputs offered,
                       \* context switches done
  history,             \* history: the renderings finished so far, oldest first
  stack,               \* the extents pass: the frames of compute_block_extents
  g_svg_writer_user,   \* static void *g_svg_writer_user ("NULL", "own", "peer")
  stdout,              \* the chunks dwg_svg_printf wrote to stdout
  peer                 \* the other thread: its locals and its sink while it waits

vars == <<pc, api, error, dwg, mspace, in_block_definition, block_base,
          model_ext, page, g_svg_writer, buf, file, handed, cur, caller,
          env, history, stack, g_svg_writer_user, stdout, peer>>

-----------------------------------------------------------------------------
(* Bounds of the model *)

\* number of API calls in one behaviour of Spec
MaxCalls == 1
\* number of API calls in one behaviour of SpecReplay
ReplayCalls == 3
\* number of API calls in one behaviour of SpecThreads, one per thread
ThreadCalls == 2
\* number of context switches in one behaviour of SpecThreads
MaxSwitches == 2
\* number of call frames the extents pass of SpecExtents may stack up
MaxDepth == 8

-----------------------------------------------------------------------------
(* IEEE doubles: finite integers, the two infinities and NaN *)

F(n) == <<0, n>>
INFINITY == <<1, 0>>
NEG_INFINITY == <<2, 0>>
NAN == <<3, 0>>

isnan(x) == x[1] = 3
isfinite(x) == x[1] = 0

fsign(x) == CASE x[1] = 0 -> (IF x[2] > 0 THEN 1 ELSE IF x[2] < 0 THEN -1 ELSE 0)
              [] x[1] = 1 -> 1
              [] x[1] = 2 -> -1
              [] OTHER -> 0

fneg(x) == CASE x[1] = 0 -> F(-x[2])
             [] x[1] = 1 -> NEG_INFINITY
             [] x[1] = 2 -> INFINITY
             [] OTHER -> NAN

fadd(a, b) ==
  IF isnan(a) \/ isnan(b) THEN NAN
  ELSE IF isfinite(a) /\ isfinite(b) THEN F(a[2] + b[2])
  ELSE IF isfinite(a) THEN b
  ELSE IF isfinite(b) THEN a
  ELSE IF a = b THEN a ELSE NAN

fsub(a, b) == fadd(a, fneg(b))

fmul(a, b) ==
  IF isnan(a) \/ isnan(b) THEN NAN
  ELSE IF isfinite(a) /\ isfinite(b) THEN F(a[2] * b[2])
  ELSE IF fsign(a) = 0 \/ fsign(b) = 0 THEN NAN
  ELSE IF fsign(a) = fsign(b) THEN INFINITY ELSE NEG_INFINITY

\* quotient of two integers, truncated toward zero
IDiv(m, n) ==
  LET q == (IF m < 0 THEN -m ELSE m) \div (IF n < 0 THEN -n ELSE n)
  IN  IF (m < 0) = (n < 0) THEN q ELSE -q

fdiv(a, b) ==
  IF isnan(a) \/ isnan(b) THEN NAN
  ELSE IF isfinite(a) /\ isfinite(b)
       THEN IF b[2] # 0 THEN F(IDiv(a[2], b[2]))
            ELSE IF a[2] = 0 THEN NAN
            ELSE IF a[2] > 0 THEN INFINITY ELSE NEG_INFINITY
  ELSE IF isfinite(a) THEN F(0)
  ELSE IF ~isfinite(b) THEN NAN
  ELSE IF (fsign(a) > 0) = (b[2] >= 0) THEN INFINITY ELSE NEG_INFINITY

\* a < b, a <= b, a > b as C compares doubles (false when either is NaN)
flt(a, b) ==
  /\ ~isnan(a) /\ ~isnan(b)
  /\ IF isfinite(a) /\ isfinite(b) THEN a[2] < b[2]
     ELSE IF a[1] = 2 THEN b[1] # 2
     ELSE IF a[1] = 1 THEN FALSE
     ELSE b[1] = 1
fle(a, b) == ~isnan(a) /\ ~isnan(b) /\ (a = b \/ flt(a, b))
fgt(a, b) == flt(b, a)

fabs(x) == IF fsign(x) < 0 THEN fneg(x) ELSE x

\* sqrt of a finite perfect square, of +INFINITY and of NaN / negative values
sqrt(x) ==
  IF isnan(x) \/ fsign(x) < 0 THEN NAN
  ELSE IF ~isfinite(x) THEN INFINITY
  ELSE F(CHOOSE r \in 0..x[2] : r * r <= x[2] /\ (r + 1) * (r + 1) > x[2])

\* cos and sin of an angle given in quarter turns
cos(q) == IF ~isfinite(q) THEN NAN
          ELSE CASE q[2] % 4 = 0 -> F(1) [] q[2] % 4 = 2 -> F(-1) [] OTHER -> F(0)
sin(q) == IF ~isfinite(q) THEN NAN
          ELSE CASE q[2] % 4 = 1 -> F(1) [] q[2] % 4 = 3 -> F(-1) [] OTHER -> F(0)

\* points: BITCODE_2DPOINT / BITCODE_3BD with integer coordinates
P2(x, y) == <<F(x), F(y)>>
P3(x, y, z) == <<F(x), F(y), F(z)>>

-----------------------------------------------------------------------------
(* C strings as sequences of characters *)

Upper == <<"A","B","C","D","E","F","G","H","I","J","K","L","M",
           "N","O","P","Q","R","S","T","U","V","W","X","Y","Z">>
Lower == <<"a","b","c","d","e","f","g","h","i","j","k","l","m",
           "n","o","p","q","r","s","t","u","v","w","x","y","z">>

tolower(c) ==
  IF \E i \in 1..26 : Upper[i] = c
  THEN Lower[CHOOSE i \in 1..26 : Upper[i] = c]
  ELSE c

\* strcasecmp (a, b): 0 when equal ignoring case
strcasecmp(a, b) ==
  IF Len(a) = Len(b) /\ \A i \in 1..Len(a) : tolower(a[i]) = tolower(b[i])
  THEN 0 ELSE 1

\* 0 when str starts with prefix ignoring case (the NUL of a shorter str differs)
strncasecmp_prefix(str, prefix) ==
  IF \A i \in 1..Len(prefix) : i <= Len(str) /\ tolower(str[i]) = tolower(prefix[i])
  THEN 0 ELSE 1

\* TRUE when needle occurs in haystack ignoring case (a non-NULL result)
strcasestr_compat(haystack, needle) ==
  \E o \in 0..(Len(haystack) - Len(needle)) :
    \A i \in 1..Len(needle) : tolower(haystack[o + i]) = tolower(needle[i])


-----------------------------------------------------------------------------
(* The DWG object model read by the renderer (Dwg_Data and its objects).   *)
(* Every drawing has the same table layout: object[1..3] are LAYERs,       *)
(* object[4] a STYLE, object[5] the *Model_Space BLOCK_HEADER, object[6]   *)
(* the *Paper_Space BLOCK_HEADER, object[7..9] three block definitions,    *)
(* object[10..13] four VERTEX_2D, object[14] an IMAGEDEF, object[15..] the *)
(* entities of the blocks.  obj->index is the position in the table.       *)

\* Dwg_Object_Ref: absolute_ref (= handleref.value) and the resolved obj
Ref(i) == [absolute_ref |-> i, obj |-> i]
NULLREF == [absolute_ref |-> 0, obj |-> 0]
\* a reference whose handle is set but which resolves to no object
DanglingRef == [absolute_ref |-> 99, obj |-> 0]

Str(chars) == [null |-> FALSE, chars |-> chars, rep |-> 1]
NULLSTR == [null |-> TRUE, chars |-> <<>>, rep |-> 0]
\* strlen of a string made of `chars` repeated `rep` times
strlen(s) == Len(s.chars) * s.rep

\* a BITCODE_BL as its top byte (>> 24) and its low 24 bits (& 0x00ffffff)
BL(hi, lo) == [hi |-> hi, lo |-> lo]
\* BITCODE_CMC
CMC(index, rgb, flag) == [index |-> index, rgb |-> rgb, flag |-> flag]
ByLayer == CMC(256, BL(0, 0), 0)

ZAxis == P3(0, 0, 1)
NegZAxis == P3(0, 0, -1)

\* common entity data (Dwg_Object_Entity): visible, on layer "0", BYLAYER
Common == [invisible |-> 0, layer |-> Ref(1), color |-> ByLayer, linewt |-> 29]

LINE(x1, y1, x2, y2) ==
  [kind |-> "LINE", start |-> P3(x1, y1, 0), end |-> P3(x2, y2, 0),
   extrusion |-> ZAxis] @@ Common
POINT(x, y) ==
  [kind |-> "POINT", x |-> F(x), y |-> F(y), z |-> F(0), extrusion |-> ZAxis] @@ Common
CIRCLE(x, y, r) ==
  [kind |-> "CIRCLE", center |-> P3(x, y, 0), radius |-> F(r),
   extrusion |-> ZAxis] @@ Common
ARC(x, y, r, sa, ea) ==
  [kind |-> "ARC", center |-> P3(x, y, 0), radius |-> F(r), start_angle |-> F(sa),
   end_angle |-> F(ea), extrusion |-> ZAxis] @@ Common
SOLID(c1, c2, c3, c4) ==
  [kind |-> "SOLID", corner1 |-> c1, corner2 |-> c2, corner3 |-> c3, corner4 |-> c4,
   extrusion |-> ZAxis] @@ Common
FACE3D(c1, c2, c3, c4, flags) ==
  [kind |-> "3DFACE", corner1 |-> c1, corner2 |-> c2, corner3 |-> c3,
   corner4 |-> c4, invis_flags |-> flags] @@ Common
TEXT(x, y, h, chars) ==
  [kind |-> "TEXT", text_value |-> Str(chars), ins_pt |-> P2(x, y),
   alignment_pt |-> P2(x + 1, y + 1), extrusion |-> ZAxis, height |-> F(h),
   width_factor |-> F(1), horiz_alignment |-> 0, vert_alignment |-> 0,
   style |-> Ref(4)] @@ Common
INSERT(blk, x, y, sx, sy, rot) ==
  [kind |-> "INSERT", block_header |-> blk, ins_pt |-> P3(x, y, 0),
   scale |-> P3(sx, sy, 1), rotation |-> F(rot), extrusion |-> ZAxis] @@ Common
LWPOLYLINE(pts, flag) ==
  [kind |-> "LWPOLYLINE", points |-> pts, flag |-> flag, extrusion |-> ZAxis] @@ Common
XLINE(px, py, vx, vy, vz) ==
  [kind |-> "XLINE", point |-> P3(px, py, 0), vector |-> P3(vx, vy, vz)] @@ Common
RAY(px, py, vx, vy, vz) ==
  [kind |-> "RAY", point |-> P3(px, py, 0), vector |-> P3(vx, vy, vz)] @@ Common
ELLIPSE(x, y, ax, ay, ratio) ==
  [kind |-> "ELLIPSE", center |-> P3(x, y, 0), sm_axis |-> P3(ax, ay, 0),
   axis_ratio |-> F(ratio), start_angle |-> F(0), end_angle |-> F(4),
   extrusion |-> ZAxis] @@ Common
ATTDEF(x, y, h, rot, chars) ==
  [kind |-> "ATTDEF", tag |-> Str(chars), ins_pt |-> P2(x, y),
   alignment_pt |-> P2(x + 1, y + 1), extrusion |-> ZAxis, height |-> F(h),
   width_factor |-> F(2), rotation |-> F(rot), horiz_alignment |-> 1,
   vert_alignment |-> 2, style |-> NULLREF] @@ Common
POLYLINE_2D(vertex, flag) ==
  [kind |-> "POLYLINE_2D", num_owned |-> Len(vertex), vertex |-> vertex,
   flag |-> flag, extrusion |-> ZAxis] @@ Common
IMAGE(x, y, w, h, imagedef) ==
  [kind |-> "IMAGE", pt0 |-> P3(x, y, 0), uvec |-> P3(1, 0, 0), vvec |-> P3(0, 1, 0),
   image_size |-> P2(w, h), imagedef |-> imagedef] @@ Common
VERTEX_2D(pt, flag) == [kind |-> "VERTEX_2D", point |-> pt, flag |-> flag] @@ Common
IMAGEDEF(file_path) == [kind |-> "IMAGEDEF", file_path |-> file_path]
\* Dwg_HATCH_Path in polyline form (flag & 2): points with bulges
PolyPath(pts, bulges_present, closed) ==
  [flag |-> 2, bulges_present |-> bulges_present, closed |-> closed,
   num_segs_or_paths |-> Len(pts), polyline_paths |-> pts, segs |-> <<>>]
PP(x, y, bulge) == [point |-> P2(x, y), bulge |-> F(bulge)]
\* Dwg_HATCH_Path in segment form
SegPath(segs) ==
  [flag |-> 1, bulges_present |-> 0, closed |-> 0, num_segs_or_paths |-> Len(segs),
   polyline_paths |-> <<>>, segs |-> segs]
SegLine(x1, y1, x2, y2) ==
  [curve_type |-> 1, first_endpoint |-> P2(x1, y1), second_endpoint |-> P2(x2, y2)]
SegArc(cx, cy, r, sa, ea, is_ccw) ==
  [curve_type |-> 2, center |-> P2(cx, cy), radius |-> F(r), start_angle |-> F(sa),
   end_angle |-> F(ea), is_ccw |-> is_ccw]
SegEllipse(cx, cy, ex, ey, ratio, sa, ea, is_ccw) ==
  [curve_type |-> 3, center |-> P2(cx, cy), endpoint |-> P2(ex, ey),
   minor_major_ratio |-> F(ratio), start_angle |-> F(sa), end_angle |-> F(ea),
   is_ccw |-> is_ccw]
\* a spline: control points (each with its point) and fit points
SegSpline(control_points, fitpts) ==
  [curve_type |-> 4, num_control_points |-> Len(control_points),
   control_points |-> [k \in 1..Len(control_points) |-> [point |-> control_points[k]]],
   num_fitpts |-> Len(fitpts), fitpts |-> fitpts]
SegOther(t) ==
  [curve_type |-> t, first_endpoint |-> P2(0, 0), second_endpoint |-> P2(0, 0)]
HATCH(paths, solid) ==
  [kind |-> "HATCH", num_paths |-> Len(paths), paths |-> paths,
   is_solid_fill |-> solid] @@ Common
\* entities the dispatcher counts or ignores without output
VIEWPORT == [kind |-> "VIEWPORT"] @@ Common
MTEXT == [kind |-> "MTEXT"] @@ Common

LAYER(off, frozen, index, linewt) ==
  [kind |-> "LAYER", off |-> off, frozen |-> frozen, color |-> CMC(index, BL(0, 0), 0),
   linewt |-> linewt]
STYLE(font_file) ==
  [kind |-> "STYLE", font_file |-> Str(font_file), width_factor |-> F(1)]
BLOCK_HEADER(name, base_pt, owned) ==
  [kind |-> "BLOCK_HEADER", name |-> name, base_pt |-> base_pt, owned |-> owned]

ModelSpaceName == Str(<<"*","M","o","d","e","l","_","S","p","a","c","e">>)
PaperSpaceName == Str(<<"*","P","a","p","e","r","_","S","p","a","c","e">>)
PaperSpace0Name == Str(<<"*","P","A","P","E","R","_","S","P","A","C","E","0">>)
UpperModelSpaceName == Str(<<"*","M","O","D","E","L","_","S","P","A","C","E">>)
MyBlockName == Str(<<"M","Y","_","B","L","O","C","K">>)
DashedName == Str(<<"A","-","-","-","B","&">>)
ArialTtf == <<"A","r","i","a","l",".","T","T","F">>

\* the parameters of one drawing; MkDwg lays them out in the object table
Plan == [ms |-> <<>>, ps |-> <<>>, b1 |-> <<>>, b2 |-> <<LINE(0, 0, 1, 1)>>, b3 |-> <<>>,
         has_ms |-> TRUE, has_ps |-> FALSE,
         name1 |-> MyBlockName, name2 |-> DashedName, name3 |-> PaperSpace0Name,
         base1 |-> P3(0, 0, 0), base2 |-> P3(1, 2, 0),
         entries |-> <<Ref(7), Ref(8)>>,
         extmin |-> P3(0, 0, 0), extmax |-> P3(0, 0, 0)]

Indices(from, n) == [i \in 1..n |-> from + i - 1]

MkDwg(p) ==
  LET o1 == 15
      o2 == o1 + Len(p.ms)
      o3 == o2 + Len(p.ps)
      o4 == o3 + Len(p.b1)
      o5 == o4 + Len(p.b2)
  IN [object |->
        << LAYER(0, 0, 7, 23), LAYER(1, 0, 1, 0), LAYER(0, 1, 2, 0), STYLE(ArialTtf),
           BLOCK_HEADER(ModelSpaceName, P3(0, 0, 0), Indices(o1, Len(p.ms))),
           BLOCK_HEADER(PaperSpaceName, P3(0, 0, 0), Indices(o2, Len(p.ps))),
           BLOCK_HEADER(p.name1, p.base1, Indices(o3, Len(p.b1))),
           BLOCK_HEADER(p.name2, p.base2, Indices(o4, Len(p.b2))),
           BLOCK_HEADER(p.name3, P3(0, 0, 0), Indices(o5, Len(p.b3))),
           VERTEX_2D(P3(1, 1, 0), 0), VERTEX_2D(P3(3, 2, 0), 0),
           VERTEX_2D(P3(9, 9, 0), 16), VERTEX_2D(<<NAN, F(0), F(0)>>, 0),
           IMAGEDEF(Str(<<"a","&","b",".","p","n","g">>)) >>
        \o p.ms \o p.ps \o p.b1 \o p.b2 \o p.b3,
      model_space |-> IF p.has_ms THEN Ref(5) ELSE NULLREF,
      paper_space |-> IF p.has_ps THEN Ref(6) ELSE NULLREF,
      entries |-> p.entries,
      extmin |-> p.extmin,
      extmax |-> p.extmax]


-----------------------------------------------------------------------------
(* Library primitives the renderer calls (geom.c, escape.c, dwg.c)         *)

\* transform_OCS: extrusion (0,0,1) is the identity, (0,0,-1) mirrors X; an
\* extrusion holding a NaN takes the arbitrary-axis branch and yields NaN
transform_OCS(pt, ext) ==
  IF isnan(ext[1]) \/ isnan(ext[2]) \/ isnan(ext[3])
  THEN [k \in 1..Len(pt) |-> NAN]
  ELSE IF ext = NegZAxis THEN [pt EXCEPT ![1] = fneg(pt[1])]
  ELSE pt
transform_OCS_2d(pt, ext) == transform_OCS(pt, ext)

RECURSIVE EscapeChars(_)
EscapeChars(cs) ==
  IF cs = <<>> THEN <<>>
  ELSE (CASE cs[1] = "&" -> <<"&","a","m","p",";">>
          [] cs[1] = "<" -> <<"&","l","t",";">>
          [] cs[1] = ">" -> <<"&","g","t",";">>
          [] OTHER -> <<cs[1]>>) \o EscapeChars(Tail(cs))
\* htmlescape / htmlwescape: NULL stays NULL
htmlescape(s) == IF s.null THEN s ELSE [s EXCEPT !.chars = EscapeChars(s.chars)]

\* dxf_cvt_lweight: lineweight code -> 1/100 mm, -1 BYLAYER, -2 BYBLOCK, -3 DEFAULT
lweights == <<0, 5, 9, 13, 15, 18, 20, 25, 30, 35, 40, 50, 53, 60, 70, 80, 90, 100,
              106, 120, 140, 158, 200, 211, 0, 0, 0, 0, 0, -1, -2, -3>>
dxf_cvt_lweight(value) == lweights[(value % 32) + 1]

\* get_first_owned_entity / get_next_owned_entity: the owner list in order
owned_entities(d, ref) == d.object[ref.obj].owned

\* dwg_paper_space_ref / dwg_model_space_ref: the block header reference of
\* the space, NULL (here NULLREF) when the drawing has none
dwg_paper_space_ref(d) == d.paper_space
dwg_model_space_ref(d) == d.model_space

\* dwg_ref_object / dwg_ref_object_silent: index of the object, 0 for NULL
dwg_ref_object(d, ref) == IF ref.obj \in 1..Len(d.object) THEN ref.obj ELSE 0

\* dwg_object_polyline_2d_get_points: the points of all vertices, flags ignored
dwg_object_polyline_2d_get_points(d, obj) ==
  LET RECURSIVE Pts(_)
      Pts(k) ==
        IF k > obj.num_owned THEN <<>>
        ELSE (IF dwg_ref_object(d, obj.vertex[k]) # 0
                 /\ d.object[dwg_ref_object(d, obj.vertex[k])].kind = "VERTEX_2D"
              THEN << <<d.object[obj.vertex[k].obj].point[1],
                        d.object[obj.vertex[k].obj].point[2]>> >>
              ELSE <<>>) \o Pts(k + 1)
  IN Pts(1)

\* atan2 (y, x) in quarter turns, for vectors along an axis
atan2(y, x) ==
  IF isnan(y) \/ isnan(x) THEN NAN
  ELSE IF fsign(y) = 0 THEN (IF fsign(x) < 0 THEN F(2) ELSE F(0))
  ELSE IF fsign(y) > 0 THEN F(1) ELSE F(-1)

-----------------------------------------------------------------------------
(* Extents (src/programs/dwg2SVG.c) *)

extents_init ==
  [xmin |-> INFINITY, ymin |-> INFINITY, xmax |-> NEG_INFINITY,
   ymax |-> NEG_INFINITY, initialized |-> 0]

extents_add_point(ext, x, y) ==
  IF isnan(x) \/ isnan(y) THEN ext
  ELSE [xmin |-> IF flt(x, ext.xmin) THEN x ELSE ext.xmin,
        xmax |-> IF fgt(x, ext.xmax) THEN x ELSE ext.xmax,
        ymin |-> IF flt(y, ext.ymin) THEN y ELSE ext.ymin,
        ymax |-> IF fgt(y, ext.ymax) THEN y ELSE ext.ymax,
        initialized |-> 1]

extents_add_circle(ext, cx, cy, radius) ==
  IF isnan(cx) \/ isnan(cy) \/ isnan(radius) THEN ext
  ELSE extents_add_point(extents_add_point(ext, fsub(cx, radius), fsub(cy, radius)),
                         fadd(cx, radius), fadd(cy, radius))

\* extents_add_point over a list of points, in order
RECURSIVE extents_add_points(_, _)
extents_add_points(ext, pts) ==
  IF pts = <<>> THEN ext
  ELSE extents_add_points(extents_add_point(ext, pts[1][1], pts[1][2]), Tail(pts))

isnan_2BD(pt) == isnan(pt[1]) \/ isnan(pt[2])
isnan_3BD(pt) == isnan(pt[1]) \/ isnan(pt[2]) \/ isnan(pt[3])

EntityKinds == {"LINE", "POINT", "CIRCLE", "ARC", "SOLID", "3DFACE", "TEXT", "INSERT",
                "LWPOLYLINE", "XLINE", "RAY", "ELLIPSE", "ATTDEF", "POLYLINE_2D",
                "IMAGE", "VERTEX_2D", "HATCH", "VIEWPORT", "MTEXT"}

\* entity_invisible with a layer that is off
entity_invisible_ignores_frozen(d, obj) ==
  \/ obj.invisible # 0
  \/ /\ obj.layer.obj # 0
     /\ d.object[obj.layer.obj].kind = "LAYER"
     /\ d.object[obj.layer.obj].off # 0

entity_invisible(d, obj) ==
  \/ obj.invisible # 0
  \/ /\ obj.layer.obj # 0
     /\ d.object[obj.layer.obj].kind = "LAYER"
     /\ (d.object[obj.layer.obj].off # 0 \/ d.object[obj.layer.obj].frozen # 0)

\* the extents after one boundary segment of a HATCH path
HatchSegExtents(ext, seg) ==
  CASE seg.curve_type = 1 ->
         extents_add_points(ext, <<seg.first_endpoint, seg.second_endpoint>>)
    [] seg.curve_type = 2 ->
         extents_add_circle(ext, seg.center[1], seg.center[2], seg.radius)
    [] seg.curve_type = 3 ->
         LET rx == sqrt(fadd(fmul(seg.endpoint[1], seg.endpoint[1]),
                             fmul(seg.endpoint[2], seg.endpoint[2])))
             ry == fmul(rx, seg.minor_major_ratio)
             max_r == IF fgt(rx, ry) THEN rx ELSE ry
         IN extents_add_circle(ext, seg.center[1], seg.center[2], max_r)
    [] seg.curve_type = 4 ->
         extents_add_points(
           extents_add_points(ext, [k \in 1..seg.num_control_points |->
                                      seg.control_points[k].point]),
           seg.fitpts)
    [] OTHER -> ext

\* the extents after one HATCH path
HatchPathExtents(ext, path) ==
  IF path.flag % 4 >= 2 /\ path.polyline_paths # <<>>
  THEN extents_add_points(ext, [j \in 1..path.num_segs_or_paths |->
                                 path.polyline_paths[j].point])
  ELSE IF path.segs # <<>>
  THEN LET RECURSIVE Segs(_, _)
           Segs(e, j) ==
             IF j > path.num_segs_or_paths THEN e
             ELSE Segs(HatchSegExtents(e, path.segs[j]), j + 1)
       IN Segs(ext, 1)
  ELSE ext

\* the INSERT case descending into the block whatever its numbers are
insert_descends_with_nan(d, obj) ==
  /\ ~(obj.block_header.absolute_ref = 0 \/ obj.block_header.obj = 0)
  /\ d.object[obj.block_header.obj].kind = "BLOCK_HEADER"

\* case DWG_TYPE_INSERT up to the call of compute_block_extents: the INSERT
\* names a block header and none of its numbers is NaN
insert_descends(d, obj) ==
  /\ ~(obj.block_header.absolute_ref = 0 \/ obj.block_header.obj = 0)
  /\ ~(isnan_3BD(obj.ins_pt) \/ isnan_3BD(obj.extrusion)
       \/ isnan_3BD(obj.scale) \/ isnan(obj.rotation))
  /\ d.object[obj.block_header.obj].kind = "BLOCK_HEADER"

\* case DWG_TYPE_INSERT after compute_block_extents has returned block_ext:
\* the insertion point for an empty block, else the four transformed corners
insert_extents(ext, d, obj, block_ext) ==
  LET hdr == d.object[obj.block_header.obj]
      ins_pt == transform_OCS(obj.ins_pt, obj.extrusion)
      sx == obj.scale[1]
      sy == obj.scale[2]
      base_x == hdr.base_pt[1]
      base_y == hdr.base_pt[2]
      cos_r == cos(obj.rotation)
      sin_r == sin(obj.rotation)
      corners == << <<fsub(block_ext.xmin, base_x), fsub(block_ext.ymin, base_y)>>,
                    <<fsub(block_ext.xmax, base_x), fsub(block_ext.ymin, base_y)>>,
                    <<fsub(block_ext.xmax, base_x), fsub(block_ext.ymax, base_y)>>,
                    <<fsub(block_ext.xmin, base_x), fsub(block_ext.ymax, base_y)>> >>
      Corner(c) ==
        LET lx == fmul(c[1], sx)
            ly == fmul(c[2], sy)
            rx == fsub(fmul(lx, cos_r), fmul(ly, sin_r))
            ry == fadd(fmul(lx, sin_r), fmul(ly, cos_r))
        IN <<fadd(ins_pt[1], rx), fadd(ins_pt[2], ry)>>
  IN IF block_ext.initialized = 0
     THEN extents_add_point(ext, ins_pt[1], ins_pt[2])
     ELSE extents_add_points(ext, [c \in 1..4 |-> Corner(corners[c])])

RECURSIVE compute_entity_extents(_, _, _), compute_block_extents_from(_, _, _, _)

\* compute_block_extents: every owned entity of the block, in order
compute_block_extents(ext, d, ref) ==
  IF ref.obj = 0 \/ d.object[ref.obj].kind # "BLOCK_HEADER" THEN ext
  ELSE compute_block_extents_from(ext, d, owned_entities(d, ref), 1)

compute_block_extents_from(ext, d, owned, k) ==
  IF k > Len(owned) THEN ext
  ELSE compute_block_extents_from(compute_entity_extents(ext, d, owned[k]), d, owned, k + 1)

compute_entity_extents(ext, d, i) ==
  LET obj == d.object[i] IN
  IF obj.kind \notin EntityKinds \/ entity_invisible(d, obj) THEN ext
  ELSE CASE obj.kind = "LINE" ->
         IF isnan_3BD(obj.start) \/ isnan_3BD(obj.end) \/ isnan_3BD(obj.extrusion)
         THEN ext
         ELSE extents_add_points(ext, <<transform_OCS(obj.start, obj.extrusion),
                                        transform_OCS(obj.end, obj.extrusion)>>)
    [] obj.kind = "CIRCLE" \/ obj.kind = "ARC" ->
         IF isnan_3BD(obj.center) \/ isnan_3BD(obj.extrusion) \/ isnan(obj.radius)
         THEN ext
         ELSE LET center == transform_OCS(obj.center, obj.extrusion)
              IN extents_add_circle(ext, center[1], center[2], obj.radius)
    [] obj.kind = "POINT" ->
         IF isnan_3BD(<<obj.x, obj.y, obj.z>>) \/ isnan_3BD(obj.extrusion) THEN ext
         ELSE extents_add_points(ext, <<transform_OCS(<<obj.x, obj.y, obj.z>>,
                                                      obj.extrusion)>>)
    [] obj.kind = "TEXT" ->
         IF obj.text_value.null \/ isnan_2BD(obj.ins_pt) \/ isnan_3BD(obj.extrusion)
         THEN ext
         ELSE LET pt == transform_OCS_2d(obj.ins_pt, obj.extrusion)
              IN extents_add_points(ext,
                   <<pt, <<fadd(pt[1], fmul(obj.height, F(5))),
                           fadd(pt[2], obj.height)>> >>)
    [] obj.kind = "SOLID" ->
         IF isnan_2BD(obj.corner1) \/ isnan_2BD(obj.corner2)
            \/ isnan_2BD(obj.corner3) \/ isnan_2BD(obj.corner4)
         THEN ext
         ELSE extents_add_points(ext,
                <<transform_OCS_2d(obj.corner1, obj.extrusion),
                  transform_OCS_2d(obj.corner2, obj.extrusion),
                  transform_OCS_2d(obj.corner3, obj.extrusion),
                  transform_OCS_2d(obj.corner4, obj.extrusion)>>)
    [] obj.kind = "3DFACE" ->
         IF isnan_3BD(obj.corner1) \/ isnan_3BD(obj.corner2)
            \/ isnan_3BD(obj.corner3) \/ isnan_3BD(obj.corner4)
         THEN ext
         ELSE extents_add_points(ext, <<obj.corner1, obj.corner2, obj.corner3,
                                        obj.corner4>>)
    [] obj.kind = "ELLIPSE" ->
         IF isnan_3BD(obj.center) \/ isnan_3BD(obj.sm_axis) \/ isnan(obj.axis_ratio)
         THEN ext
         ELSE LET rx == sqrt(fadd(fmul(obj.sm_axis[1], obj.sm_axis[1]),
                                  fmul(obj.sm_axis[2], obj.sm_axis[2])))
                  ry == fmul(rx, obj.axis_ratio)
                  max_r == IF fgt(rx, ry) THEN rx ELSE ry
              IN extents_add_circle(ext, obj.center[1], obj.center[2], max_r)
    [] obj.kind = "ATTDEF" ->
         IF obj.tag.null \/ isnan_2BD(obj.ins_pt) \/ isnan_3BD(obj.extrusion)
         THEN ext
         ELSE LET pt == transform_OCS_2d(obj.ins_pt, obj.extrusion)
              IN extents_add_points(ext,
                   <<pt, <<fadd(pt[1], fmul(obj.height, F(5))),
                           fadd(pt[2], obj.height)>> >>)
    [] obj.kind = "POLYLINE_2D" ->
         LET pts == dwg_object_polyline_2d_get_points(d, obj)
         IN extents_add_points(ext,
              [j \in 1..Len(pts) |-> transform_OCS_2d(pts[j], obj.extrusion)])
    [] obj.kind = "IMAGE" ->
         IF isnan_3BD(obj.pt0) \/ isnan_3BD(obj.uvec) \/ isnan_3BD(obj.vvec)
            \/ isnan(obj.image_size[1]) \/ isnan(obj.image_size[2])
         THEN ext
         ELSE LET ux == fmul(obj.uvec[1], obj.image_size[1])
                  uy == fmul(obj.uvec[2], obj.image_size[1])
                  vx == fmul(obj.vvec[1], obj.image_size[2])
                  vy == fmul(obj.vvec[2], obj.image_size[2])
                  x0 == obj.pt0[1]
                  y0 == obj.pt0[2]
              IN extents_add_points(ext,
                   << <<x0, y0>>, <<fadd(x0, ux), fadd(y0, uy)>>,
                      <<fadd(fadd(x0, ux), vx), fadd(fadd(y0, uy), vy)>>,
                      <<fadd(x0, vx), fadd(y0, vy)>> >>)
    [] obj.kind = "LWPOLYLINE" ->
         extents_add_points(ext,
           [j \in 1..Len(obj.points) |-> transform_OCS_2d(obj.points[j], obj.extrusion)])
    [] obj.kind = "INSERT" ->
         IF ~insert_descends(d, obj) THEN ext
         ELSE insert_extents(ext, d, obj,
                compute_block_extents(extents_init, d, obj.block_header))
    [] obj.kind = "HATCH" ->
         LET RECURSIVE Paths(_, _)
             Paths(e, k) ==
               IF k > obj.num_paths THEN e
               ELSE Paths(HatchPathExtents(e, obj.paths[k]), k + 1)
         IN Paths(ext, 1)
    [] OTHER -> ext

-----------------------------------------------------------------------------
(* printf calls of the renderer.  A call is recorded with the format it     *)
(* uses (tag), the integers it prints as element id (id) or symbol          *)
(* reference (href), its other %d arguments (ints), its %f arguments in     *)
(* order (args), its fixed-word %s arguments (txt), a colour and its        *)
(* C-string %s argument (str).                                              *)

Color(name, rgb) == [name |-> name, rgb |-> rgb]
NoColor == Color("", 0)

Blank == [tag |-> "", id |-> <<>>, href |-> 0, ints |-> <<>>, args |-> <<>>,
          txt |-> <<>>, color |-> NoColor, str |-> NULLSTR]

\* what vsnprintf returns: the length of the complete formatted text, here a
\* nominal length for the format and its numbers plus the exact length of
\* the C-string argument
vsnprintf(c) ==
  (IF c.tag = "prologue" THEN 300 ELSE 16) + 2 * Len(c.id) + Len(c.ints)
  + 8 * Len(c.args)
  + 5 * Len(c.txt) + strlen(c.str)

Fmt(r) == LET c == r @@ Blank IN c @@ [n |-> vsnprintf(c)]

-----------------------------------------------------------------------------
(* Coordinate transforms, colours, line weights (src/programs/dwg2SVG.c)   *)

transform_ANGLE(angle) == fsub(F(180), angle)

transform_X(x) ==
  IF in_block_definition # 0 THEN x ELSE fsub(x, model_ext.xmin)

\* transform_Y without the flip
transform_Y_unflipped(y) ==
  IF in_block_definition # 0 THEN y ELSE fsub(y, model_ext.ymin)

transform_Y(y) ==
  IF in_block_definition # 0 THEN y
  ELSE fsub(page.height, fsub(y, model_ext.ymin))

HasLayer(d, ent) ==
  ent.layer.obj # 0 /\ d.object[ent.layer.obj].kind = "LAYER"

\* stroke width in 1/100 px
entity_lweight(d, ent) ==
  LET lw0 == dxf_cvt_lweight(ent.linewt)
      lw1 == IF lw0 = -1 /\ HasLayer(d, ent)
             THEN dxf_cvt_lweight(d.object[ent.layer.obj].linewt) ELSE lw0
      \* int lw = (double)(lw * 0.001): the product is truncated to an int
      lw2 == IDiv(lw1, 1000)
  IN IF lw1 <= 0 THEN F(10)
     ELSE IF lw2 <= 0 THEN F(10)
     ELSE F(100 * lw2)

\* a palette colour is kept as the palette entry number
aci_color(index) ==
  IF index >= 8 /\ index < 256 THEN Color("#palette", index)
  ELSE CASE index = 1 -> Color("red", 0)
         [] index = 2 -> Color("yellow", 0)
         [] index = 3 -> Color("green", 0)
         [] index = 4 -> Color("cyan", 0)
         [] index = 5 -> Color("blue", 0)
         [] index = 6 -> Color("magenta", 0)
         [] index = 7 -> Color("white", 0)
         [] OTHER -> Color("black", 0)

\* cmc_color that looks at the true-colour flag before the index
cmc_color_flag_first(color) ==
  IF (color.flag \div 128) % 2 = 1 /\ (color.flag \div 64) % 2 = 0
  THEN Color("#rrggbb", color.rgb.lo)
  ELSE IF color.index >= 1 /\ color.index < 256 THEN aci_color(color.index)
  ELSE IF color.index = 256 /\ color.rgb.hi = 195
  THEN aci_color(color.rgb.lo % 256)
  ELSE Color("black", 0)

cmc_color(color) ==
  IF color.index >= 1 /\ color.index < 256 THEN aci_color(color.index)
  ELSE IF (color.flag \div 128) % 2 = 1 /\ (color.flag \div 64) % 2 = 0
  THEN Color("#rrggbb", color.rgb.lo)
  ELSE IF color.index = 256 /\ color.rgb.hi = 195
  THEN aci_color(color.rgb.lo % 256)
  ELSE Color("black", 0)

entity_color(d, ent) ==
  IF ent.color.index = 256 /\ HasLayer(d, ent)
  THEN cmc_color(d.object[ent.layer.obj].color)
  ELSE cmc_color(ent.color)

HexDigits == <<"0","1","2","3","4","5","6","7","8","9","a","b","c","d","e","f">>

\* printf ("%0<width>x", n): the hexadecimal digits of n, padded with zeros
\* on the left to at least `width` characters
RECURSIVE printf_x(_, _)
printf_x(n, width) ==
  IF n < 16 THEN [k \in 1..(IF width > 1 THEN width - 1 ELSE 0) |-> "0"]
                 \o <<HexDigits[n + 1]>>
  ELSE Append(printf_x(n \div 16, width - 1), HexDigits[(n % 16) + 1])

ColorNames ==
  [red |-> <<"r","e","d">>, yellow |-> <<"y","e","l","l","o","w">>,
   green |-> <<"g","r","e","e","n">>, cyan |-> <<"c","y","a","n">>,
   blue |-> <<"b","l","u","e">>, magenta |-> <<"m","a","g","e","n","t","a">>,
   white |-> <<"w","h","i","t","e">>, black |-> <<"b","l","a","c","k">>]

\* the string aci_color and cmc_color return for a colour, the palette entry
\* of dwg_rgb_palette being `entry`: "#%02x%02x%02x" of the entry, "#%06x"
\* of the low 24 bits, or the literal name
color_string(c, entry) ==
  IF c.name = "#palette"
  THEN <<"#">> \o printf_x(entry.r, 2) \o printf_x(entry.g, 2) \o printf_x(entry.b, 2)
  ELSE IF c.name = "#rrggbb" THEN <<"#">> \o printf_x(c.rgb, 6)
  ELSE ColorNames[c.name]

common_entity(d, obj) ==
  << Fmt([tag |-> "style", args |-> <<entity_lweight(d, obj)>>,
          color |-> entity_color(d, obj)]) >>

\* fontfamily and cap_height_ratio (in 1/1000)
get_font_info(d, o) ==
  IF o # 0 /\ d.object[o].kind = "STYLE" /\ ~d.object[o].font_file.null
     /\ d.object[o].font_file.chars # <<>>
     /\ strcasestr_compat(d.object[o].font_file.chars, <<".","t","t","f">>)
  THEN LET f == d.object[o].font_file.chars IN
       IF strcasestr_compat(f, <<"a","r","i","a","l">>)
       THEN [fontfamily |-> "Arial", cap_height_ratio |-> 716]
       ELSE IF strcasestr_compat(f, <<"t","i","m","e","s">>)
       THEN [fontfamily |-> "Times New Roman", cap_height_ratio |-> 662]
       ELSE IF strcasestr_compat(f, <<"s","w","i","s","s","e","k">>)
       THEN [fontfamily |-> "Swis721 BlkEx BT, Helvetica, Arial", cap_height_ratio |-> 716]
       ELSE IF strcasestr_compat(f, <<"s","w","i","s","s">>)
       THEN [fontfamily |-> "Swis721 BT, Helvetica, Arial", cap_height_ratio |-> 716]
       ELSE IF strcasestr_compat(f, <<"l","u","c","o","n">>)
       THEN [fontfamily |-> "Lucida Console", cap_height_ratio |-> 692]
       ELSE [fontfamily |-> "Verdana", cap_height_ratio |-> 727]
  ELSE [fontfamily |-> "Courier", cap_height_ratio |-> 616]

get_text_anchor(horiz_alignment) ==
  CASE horiz_alignment = 1 \/ horiz_alignment = 4 -> "middle"
    [] horiz_alignment = 2 -> "end"
    [] OTHER -> "start"

get_dominant_baseline(vert_alignment) ==
  CASE vert_alignment = 1 -> "text-after-edge"
    [] vert_alignment = 2 -> "central"
    [] vert_alignment = 3 -> "text-before-edge"
    [] OTHER -> "auto"

-----------------------------------------------------------------------------
(* Entity emitters: the printf calls of one output_<KIND> call, in order   *)

Comment(kind, i) == Fmt([tag |-> "comment", id |-> <<i>>, txt |-> <<kind>>])

output_text_element(i, x, y, fontfamily, font_size, color, text_anchor, dominant_baseline, rotation_deg, width_factor, escaped) ==
  LET has_rotation == fgt(fabs(rotation_deg), F(0))
      has_scale == fgt(fabs(fsub(width_factor, F(1))), F(0))
      tx == IF has_scale THEN fdiv(x, width_factor) ELSE x
  IN << Fmt([tag |-> "text", id |-> <<i>>, args |-> <<tx, y, font_size>>,
             txt |-> <<fontfamily, text_anchor, dominant_baseline>>,
             color |-> color]) >>
     \o (IF has_rotation /\ has_scale
         THEN << Fmt([tag |-> "rotate-scale",
                      args |-> <<fneg(rotation_deg), tx, y, width_factor>>]) >>
         ELSE IF has_rotation
         THEN << Fmt([tag |-> "rotate", args |-> <<fneg(rotation_deg), tx, y>>]) >>
         ELSE IF has_scale
         THEN << Fmt([tag |-> "scale", args |-> <<width_factor>>]) >>
         ELSE <<>>)
     \o << Fmt([tag |-> "text-end",
                str |-> IF escaped.null THEN Str(<<>>) ELSE escaped]) >>

\* the width factor of a TEXT / ATTDEF: its own, else the style's, else 1
text_width_factor(d, o, width_factor) ==
  LET wf == IF width_factor = F(0) /\ o # 0 THEN d.object[o].width_factor
            ELSE width_factor
  IN IF wf = F(0) THEN F(1) ELSE wf

output_TEXT(d, i) ==
  LET text == d.object[i]
      o == IF text.style # NULLREF THEN dwg_ref_object(d, text.style) ELSE 0
      font == get_font_info(d, o)
      pt == IF text.horiz_alignment # 0 \/ text.vert_alignment # 0
            THEN transform_OCS_2d(text.alignment_pt, text.extrusion)
            ELSE transform_OCS_2d(text.ins_pt, text.extrusion)
  IN IF text.text_value.null \/ entity_invisible(d, text) THEN <<>>
     ELSE IF isnan_2BD(text.ins_pt) \/ isnan_3BD(text.extrusion) THEN <<>>
     ELSE output_text_element(i, transform_X(pt[1]), transform_Y(pt[2]),
            font.fontfamily,
            fdiv(fmul(text.height, F(1000)), F(font.cap_height_ratio)),
            entity_color(d, text), get_text_anchor(text.horiz_alignment),
            get_dominant_baseline(text.vert_alignment), F(0),
            text_width_factor(d, o, text.width_factor),
            htmlescape(text.text_value))

output_ATTDEF(d, i) ==
  LET attdef == d.object[i]
      o == IF attdef.style # NULLREF THEN dwg_ref_object(d, attdef.style) ELSE 0
      font == get_font_info(d, o)
      pt == IF attdef.horiz_alignment # 0 \/ attdef.vert_alignment # 0
            THEN transform_OCS_2d(attdef.alignment_pt, attdef.extrusion)
            ELSE transform_OCS_2d(attdef.ins_pt, attdef.extrusion)
      \* rotation * 180.0 / M_PI with the rotation in quarter turns
      rotation_deg == fmul(attdef.rotation, F(90))
  IN IF attdef.tag.null \/ entity_invisible(d, attdef) THEN <<>>
     ELSE IF isnan_2BD(attdef.ins_pt) \/ isnan_3BD(attdef.extrusion) THEN <<>>
     ELSE output_text_element(i, transform_X(pt[1]), transform_Y(pt[2]),
            font.fontfamily,
            fdiv(fmul(attdef.height, F(1000)), F(font.cap_height_ratio)),
            entity_color(d, attdef), get_text_anchor(attdef.horiz_alignment),
            get_dominant_baseline(attdef.vert_alignment), rotation_deg,
            text_width_factor(d, o, attdef.width_factor),
            htmlescape(attdef.tag))

output_LINE(d, i) ==
  LET line == d.object[i]
      start == transform_OCS(line.start, line.extrusion)
      end == transform_OCS(line.end, line.extrusion)
  IN IF isnan_3BD(line.start) \/ isnan_3BD(line.end) \/ isnan_3BD(line.extrusion)
        \/ entity_invisible(d, line)
     THEN <<>>
     ELSE << Comment("line", i),
             Fmt([tag |-> "path", id |-> <<i>>,
                  args |-> <<transform_X(start[1]), transform_Y(start[2]),
                             transform_X(end[1]), transform_Y(end[2])>>]) >>
          \o common_entity(d, line)

\* the slab clipping shared by output_XLINE and output_RAY: the box corners
\* are (xmin, ymin, 0) and (xmax, ymin, 0), and the y slab reads the x field
xline_clip(xline) ==
  LET invvec == [k \in 1..3 |-> fdiv(F(1), xline.vector[k])]
      sign == [k \in 1..3 |-> IF flt(invvec[k], F(0)) THEN 1 ELSE 0]
      box == << <<model_ext.xmin, model_ext.ymin, F(0)>>,
                <<model_ext.xmax, model_ext.ymin, F(0)>> >>
      txmin0 == fmul(fsub(box[sign[1] + 1][1], xline.point[1]), invvec[1])
      txmax0 == fmul(fsub(box[2 - sign[1]][1], xline.point[1]), invvec[1])
      tymin == fmul(fsub(box[sign[2] + 1][1], xline.point[2]), invvec[2])
      tymax == fmul(fsub(box[2 - sign[2]][1], xline.point[2]), invvec[2])
      txmin == IF fgt(tymin, txmin0) THEN tymin ELSE txmin0
      txmax == IF fgt(tymax, txmax0) THEN tymax ELSE txmax0
      tzmin == fmul(fsub(box[sign[1] + 1][3], xline.point[3]), invvec[3])
      tzmax == fmul(fsub(box[2 - sign[1]][3], xline.point[3]), invvec[3])
  IN [miss_xy |-> fgt(txmin0, tymax) \/ fgt(tymin, txmax0),
      miss_z |-> fgt(txmin, tzmax) \/ fgt(tzmin, txmax),
      txmin |-> txmin, txmax |-> txmax, tymin |-> tymin, tymax |-> tymax]

output_XLINE(d, i) ==
  LET xline == d.object[i]
      t == xline_clip(xline)
  IN IF isnan_3BD(xline.point) \/ isnan_3BD(xline.vector) \/ entity_invisible(d, xline)
     THEN <<>>
     ELSE << Comment("xline", i) >>
          \o (IF t.miss_xy \/ t.miss_z THEN <<>>
              ELSE << Fmt([tag |-> "path", id |-> <<i>>,
                           args |-> <<t.txmin, t.tymin, t.txmax, t.tymax>>]) >>
                   \o common_entity(d, xline))

output_RAY(d, i) ==
  LET xline == d.object[i]
      t == xline_clip(xline)
      px0 == IF fgt(xline.point[1], t.txmax) THEN t.txmax ELSE xline.point[1]
      px == IF flt(px0, t.txmin) THEN t.txmin ELSE px0
      py0 == IF fgt(xline.point[2], t.tymax) THEN t.tymax ELSE xline.point[2]
      py == IF flt(py0, t.tymin) THEN t.tymin ELSE py0
  IN IF isnan_3BD(xline.point) \/ isnan_3BD(xline.vector) \/ entity_invisible(d, xline)
     THEN <<>>
     ELSE << Comment("ray", i) >>
          \o (IF t.miss_xy \/ t.miss_z THEN <<>>
              ELSE << Fmt([tag |-> "path", id |-> <<i>>,
                           args |-> <<px, py, t.txmax, t.tymax>>]) >>
                   \o common_entity(d, xline))

output_CIRCLE(d, i) ==
  LET circle == d.object[i]
      center == transform_OCS(circle.center, circle.extrusion)
  IN IF isnan_3BD(circle.center) \/ isnan_3BD(circle.extrusion)
        \/ isnan(circle.radius) \/ entity_invisible(d, circle)
     THEN <<>>
     ELSE << Comment("circle", i),
             Fmt([tag |-> "circle", id |-> <<i>>,
                  args |-> <<transform_X(center[1]), transform_Y(center[2]),
                             circle.radius>>]) >>
          \o common_entity(d, circle)

output_POINT(d, i) ==
  LET point == d.object[i]
      pt == <<point.x, point.y, point.z>>
      pt1 == transform_OCS(pt, point.extrusion)
  IN IF isnan_3BD(pt) \/ isnan_3BD(point.extrusion) \/ entity_invisible(d, point)
     THEN <<>>
     ELSE << Comment("point", i),
             Fmt([tag |-> "circle-r0.1", id |-> <<i>>,
                  args |-> <<transform_X(pt1[1]), transform_Y(pt1[2])>>]) >>
          \o common_entity(d, point)

output_ARC(d, i) ==
  LET arc == d.object[i]
      center == transform_OCS(arc.center, arc.extrusion)
      x_start == fadd(center[1], fmul(arc.radius, cos(arc.start_angle)))
      y_start == fadd(center[2], fmul(arc.radius, sin(arc.start_angle)))
      x_end == fadd(center[1], fmul(arc.radius, cos(arc.end_angle)))
      y_end == fadd(center[2], fmul(arc.radius, sin(arc.end_angle)))
      \* end_angle - start_angle < M_PI, M_PI being two quarter turns
      large_arc == IF flt(fsub(arc.end_angle, arc.start_angle), F(2)) THEN 0 ELSE 1
  IN IF isnan_3BD(arc.center) \/ isnan_3BD(arc.extrusion) \/ isnan(arc.radius)
        \/ isnan(arc.start_angle) \/ isnan(arc.end_angle) \/ entity_invisible(d, arc)
     THEN <<>>
     ELSE << Comment("arc", i),
             Fmt([tag |-> "path-arc", id |-> <<i>>, ints |-> <<large_arc>>,
                  args |-> <<transform_X(x_start), transform_Y(y_start), arc.radius,
                             arc.radius, transform_X(x_end), transform_Y(y_end)>>]) >>
          \o common_entity(d, arc)

output_ELLIPSE(d, i) ==
  LET ell == d.object[i]
      rx == sqrt(fadd(fmul(ell.sm_axis[1], ell.sm_axis[1]),
                      fmul(ell.sm_axis[2], ell.sm_axis[2])))
      ry == fmul(rx, ell.axis_ratio)
      \* angle_rad * 180.0 / M_PI with the angle in quarter turns
      angle_dec == fmul(atan2(ell.sm_axis[2], ell.sm_axis[1]), F(90))
  IN IF isnan_3BD(ell.center) \/ isnan_3BD(ell.extrusion) \/ isnan_3BD(ell.sm_axis)
        \/ isnan(ell.axis_ratio) \/ isnan(ell.start_angle) \/ isnan(ell.end_angle)
        \/ entity_invisible(d, ell)
     THEN <<>>
     ELSE << Comment("ellipse", i),
             Fmt([tag |-> "comment-ellipse",
                  args |-> <<ell.sm_axis[1], ell.sm_axis[2], ell.sm_axis[3],
                             ell.axis_ratio, ell.start_angle, ell.end_angle>>]),
             Fmt([tag |-> "ellipse", id |-> <<i>>,
                  args |-> <<transform_X(ell.center[1]), transform_Y(ell.center[2]),
                             rx, ry, transform_ANGLE(angle_dec),
                             transform_X(ell.center[1]),
                             transform_Y(ell.center[2])>>]) >>
          \o common_entity(d, ell)

output_SOLID(d, i) ==
  LET sol == d.object[i]
      c1 == transform_OCS_2d(sol.corner1, sol.extrusion)
      c2 == transform_OCS_2d(sol.corner2, sol.extrusion)
      c3 == transform_OCS_2d(sol.corner3, sol.extrusion)
      c4 == transform_OCS_2d(sol.corner4, sol.extrusion)
  IN IF isnan_2BD(sol.corner1) \/ isnan_2BD(sol.corner2) \/ isnan_2BD(sol.corner3)
        \/ isnan_2BD(sol.corner4) \/ entity_invisible(d, sol)
     THEN <<>>
     ELSE << Comment("solid", i),
             Fmt([tag |-> "polygon", id |-> <<i>>,
                  args |-> <<transform_X(c1[1]), transform_Y(c1[2]),
                             transform_X(c2[1]), transform_Y(c2[2]),
                             transform_X(c3[1]), transform_Y(c3[2]),
                             transform_X(c4[1]), transform_Y(c4[2])>>]) >>
          \o common_entity(d, sol)

\* "M" when the bit of invis_flags is set, else "L"
MoveOrLine(invis_flags, bit) == IF (invis_flags \div bit) % 2 = 1 THEN "M" ELSE "L"

output_3DFACE(d, i) ==
  LET ent == d.object[i]
      XY(c) == <<c[1], c[2]>>
  IN IF isnan_3BD(ent.corner1) \/ isnan_3BD(ent.corner2) \/ isnan_3BD(ent.corner3)
        \/ isnan_3BD(ent.corner4) \/ entity_invisible(d, ent)
     THEN <<>>
     ELSE << Comment("3dface", i) >>
          \o (IF ent.invis_flags # 0
              THEN << Fmt([tag |-> "path-M", id |-> <<i>>, args |-> XY(ent.corner1)]),
                      Fmt([tag |-> "edge", args |-> XY(ent.corner2),
                           txt |-> <<MoveOrLine(ent.invis_flags, 1)>>]),
                      Fmt([tag |-> "edge", args |-> XY(ent.corner3),
                           txt |-> <<MoveOrLine(ent.invis_flags, 2)>>]),
                      Fmt([tag |-> "edge", args |-> XY(ent.corner4),
                           txt |-> <<MoveOrLine(ent.invis_flags, 4)>>]),
                      Fmt([tag |-> "edge-end", args |-> XY(ent.corner1),
                           txt |-> <<MoveOrLine(ent.invis_flags, 8)>>]) >>
              ELSE << Fmt([tag |-> "polygon", id |-> <<i>>,
                           args |-> XY(ent.corner1) \o XY(ent.corner2)
                                    \o XY(ent.corner3) \o XY(ent.corner4)]) >>)
          \o common_entity(d, ent)

output_POLYLINE_2D(d, i) ==
  LET pline == d.object[i]
      RECURSIVE Vertices(_, _)
      Vertices(k, is_first) ==
        IF k > pline.num_owned THEN <<>>
        ELSE LET v == dwg_ref_object(d, pline.vertex[k])
                 vobj == d.object[v]
                 ptin == <<vobj.point[1], vobj.point[2]>>
                 pt == transform_OCS_2d(ptin, pline.extrusion)
             IN IF v = 0 \/ vobj.kind # "VERTEX_2D" THEN Vertices(k + 1, is_first)
                ELSE IF (vobj.flag \div 16) % 2 = 1 THEN Vertices(k + 1, is_first)
                ELSE IF isnan_2BD(ptin) THEN Vertices(k + 1, is_first)
                ELSE << Fmt([tag |-> IF is_first THEN "M" ELSE "L",
                             args |-> <<transform_X(pt[1]), transform_Y(pt[2])>>]) >>
                     \o Vertices(k + 1, FALSE)
  IN IF entity_invisible(d, pline) THEN <<>>
     ELSE IF isnan_3BD(pline.extrusion) THEN <<>>
     ELSE IF pline.num_owned = 0 THEN <<>>
     ELSE << Comment("polyline_2d", i), Fmt([tag |-> "path-open", id |-> <<i>>]) >>
          \o Vertices(1, TRUE)
          \o (IF pline.flag % 2 = 1 THEN << Fmt([tag |-> "Z"]) >> ELSE <<>>)
          \o << Fmt([tag |-> "d-end"]) >>
          \o common_entity(d, pline)

output_LWPOLYLINE(d, i) ==
  LET pline == d.object[i]
      numpts == Len(pline.points)
      pts == pline.points
      Seg(j) ==
        LET pt == transform_OCS_2d(pts[j], pline.extrusion)
        IN IF isnan_2BD(pts[j]) THEN <<>>
           ELSE << Fmt([tag |-> "L",
                        args |-> <<transform_X(pt[1]), transform_Y(pt[2])>>]) >>
      RECURSIVE Segs(_)
      Segs(j) == IF j > numpts THEN <<>> ELSE Seg(j) \o Segs(j + 1)
      pt0 == transform_OCS_2d(pts[1], pline.extrusion)
  IN IF entity_invisible(d, pline) THEN <<>>
     ELSE IF numpts = 0 THEN <<>>
     ELSE IF isnan_2BD(pts[1]) \/ isnan_3BD(pline.extrusion) THEN <<>>
     ELSE << Comment("lwpolyline", i),
             Fmt([tag |-> "path-M", id |-> <<i>>,
                  args |-> <<transform_X(pt0[1]), transform_Y(pt0[2])>>]) >>
          \o Segs(2)
          \o (IF (pline.flag \div 512) % 2 = 1 THEN << Fmt([tag |-> "Z"]) >> ELSE <<>>)
          \o << Fmt([tag |-> "d-end"]) >>
          \o common_entity(d, pline)

output_bulge_arc(x1, y1, x2, y2, bulge) ==
  LET dx == fsub(x2, x1)
      dy == fsub(y2, y1)
      chord == sqrt(fadd(fmul(dx, dx), fmul(dy, dy)))
      sagitta == fdiv(fmul(fabs(bulge), chord), F(2))
      radius == fdiv(fadd(fdiv(fmul(chord, chord), F(4)), fmul(sagitta, sagitta)),
                     fmul(F(2), sagitta))
      large_arc == IF fgt(fabs(bulge), F(1)) THEN 1 ELSE 0
      sweep == IF fgt(bulge, F(0)) THEN 1 ELSE 0
  IN << Fmt([tag |-> "A", ints |-> <<large_arc, sweep>>,
             args |-> <<radius, radius, transform_X(x2), transform_Y(y2)>>]) >>

\* the sweep flag of an arc command: the literal 0 in the format of
\* output_ARC, the second %d in the format of the hatch arcs
sweep_flag(c) == IF c.tag = "path-arc" THEN 0 ELSE c.ints[2]

output_hatch_path_data(path) ==
  IF path.flag % 4 >= 2 /\ path.polyline_paths # <<>>
  THEN LET n == path.num_segs_or_paths
           pp == path.polyline_paths
           Vertex(j) ==
             IF isnan(pp[j].point[1]) \/ isnan(pp[j].point[2]) THEN <<>>
             ELSE IF j = 1
             THEN << Fmt([tag |-> "M",
                          args |-> <<transform_X(pp[j].point[1]),
                                     transform_Y(pp[j].point[2])>>]) >>
             ELSE IF path.bulges_present # 0 /\ fgt(fabs(pp[j - 1].bulge), F(0))
             THEN output_bulge_arc(pp[j - 1].point[1], pp[j - 1].point[2],
                                   pp[j].point[1], pp[j].point[2], pp[j - 1].bulge)
             ELSE << Fmt([tag |-> "L",
                          args |-> <<transform_X(pp[j].point[1]),
                                     transform_Y(pp[j].point[2])>>]) >>
           RECURSIVE Vertices(_)
           Vertices(j) == IF j > n THEN <<>> ELSE Vertex(j) \o Vertices(j + 1)
       IN Vertices(1)
          \o (IF path.closed # 0 /\ n > 0
              THEN IF path.bulges_present # 0 /\ fgt(fabs(pp[n].bulge), F(0))
                   THEN output_bulge_arc(pp[n].point[1], pp[n].point[2],
                                         pp[1].point[1], pp[1].point[2], pp[n].bulge)
                   ELSE << Fmt([tag |-> "Z"]) >>
              ELSE <<>>)
  ELSE IF path.segs # <<>>
  THEN LET Move(first_point, x, y) ==
             IF first_point
             THEN << Fmt([tag |-> "M", args |-> <<transform_X(x), transform_Y(y)>>]) >>
             ELSE <<>>
           \* fabs (ea - sa) > M_PI, M_PI being two quarter turns
           LargeArc(seg) ==
             IF fgt(fabs(fsub(seg.end_angle, seg.start_angle)), F(2)) THEN 1 ELSE 0
           Sweep(seg) == IF seg.is_ccw # 0 THEN 1 ELSE 0
           Line(seg, first_point) ==
             IF isnan_2BD(seg.first_endpoint) \/ isnan_2BD(seg.second_endpoint)
             THEN <<>>
             ELSE Move(first_point, seg.first_endpoint[1], seg.first_endpoint[2])
                  \o << Fmt([tag |-> "L",
                             args |-> <<transform_X(seg.second_endpoint[1]),
                                        transform_Y(seg.second_endpoint[2])>>]) >>
           Arc(seg, first_point) ==
             LET r == seg.radius
                 x1 == fadd(seg.center[1], fmul(r, cos(seg.start_angle)))
                 y1 == fadd(seg.center[2], fmul(r, sin(seg.start_angle)))
                 x2 == fadd(seg.center[1], fmul(r, cos(seg.end_angle)))
                 y2 == fadd(seg.center[2], fmul(r, sin(seg.end_angle)))
             IN IF isnan_2BD(seg.center) \/ isnan(r) \/ isnan(seg.start_angle)
                   \/ isnan(seg.end_angle)
                THEN <<>>
                ELSE Move(first_point, x1, y1)
                     \o << Fmt([tag |-> "A", ints |-> <<LargeArc(seg), Sweep(seg)>>,
                                args |-> <<r, r, transform_X(x2), transform_Y(y2)>>]) >>
           EllipticalArc(seg, first_point) ==
             LET rx == sqrt(fadd(fmul(seg.endpoint[1], seg.endpoint[1]),
                                 fmul(seg.endpoint[2], seg.endpoint[2])))
                 ry == fmul(rx, seg.minor_major_ratio)
                 rot == fmul(atan2(seg.endpoint[2], seg.endpoint[1]), F(90))
                 x1 == fadd(seg.center[1], fmul(rx, cos(seg.start_angle)))
                 y1 == fadd(seg.center[2], fmul(ry, sin(seg.start_angle)))
                 x2 == fadd(seg.center[1], fmul(rx, cos(seg.end_angle)))
                 y2 == fadd(seg.center[2], fmul(ry, sin(seg.end_angle)))
             IN IF isnan_2BD(seg.center) \/ isnan(rx) \/ isnan(ry)
                   \/ isnan(seg.start_angle) \/ isnan(seg.end_angle)
                THEN <<>>
                ELSE Move(first_point, x1, y1)
                     \o << Fmt([tag |-> "A-rot", ints |-> <<LargeArc(seg), Sweep(seg)>>,
                                args |-> <<rx, ry, rot, transform_X(x2),
                                           transform_Y(y2)>>]) >>
           \* the control points when there are any, else the fit points
           Spline(seg, first_point) ==
             LET pts == IF seg.num_control_points # 0
                        THEN [k \in 1..seg.num_control_points |->
                                seg.control_points[k].point]
                        ELSE seg.fitpts
                 valid == SelectSeq(pts, LAMBDA pt : ~isnan_2BD(pt))
             IN [k \in 1..Len(valid) |->
                   Fmt([tag |-> IF first_point /\ k = 1 THEN "M" ELSE "L",
                        args |-> <<transform_X(valid[k][1]),
                                   transform_Y(valid[k][2])>>])]
           Seg(seg, first_point) ==
             CASE seg.curve_type = 1 -> Line(seg, first_point)
               [] seg.curve_type = 2 -> Arc(seg, first_point)
               [] seg.curve_type = 3 -> EllipticalArc(seg, first_point)
               [] seg.curve_type = 4 -> Spline(seg, first_point)
               [] OTHER -> <<>>
           RECURSIVE Segs(_, _)
           Segs(j, first_point) ==
             IF j > path.num_segs_or_paths THEN <<>>
             ELSE Seg(path.segs[j], first_point)
                  \o Segs(j + 1, first_point /\ Seg(path.segs[j], first_point) = <<>>)
       IN Segs(1, TRUE) \o << Fmt([tag |-> "Z"]) >>
  ELSE <<>>

\* output_HATCH that draws every boundary path as an outline carrying the
\* plain id of the entity
output_HATCH_plain_ids(d, i) ==
  LET hatch == d.object[i]
      RECURSIVE Outline(_)
      Outline(k) ==
        IF k > hatch.num_paths THEN <<>>
        ELSE << Fmt([tag |-> "hatch-path-open", id |-> <<i>>]) >>
             \o output_hatch_path_data(hatch.paths[k])
             \o << Fmt([tag |-> "style-outline", args |-> <<entity_lweight(d, hatch)>>,
                        color |-> entity_color(d, hatch)]) >>
             \o Outline(k + 1)
  IN IF entity_invisible(d, hatch) \/ hatch.num_paths = 0 THEN <<>>
     ELSE << Comment("hatch", i) >> \o Outline(1)

output_HATCH(d, i) ==
  LET hatch == d.object[i]
      fill_color == entity_color(d, hatch)
      lweight == entity_lweight(d, hatch)
      RECURSIVE Solid(_), Outline(_)
      Solid(k) ==
        IF k > hatch.num_paths THEN <<>>
        ELSE output_hatch_path_data(hatch.paths[k])
             \o (IF k < hatch.num_paths THEN << Fmt([tag |-> "space"]) >> ELSE <<>>)
             \o Solid(k + 1)
      Outline(k) ==
        IF k > hatch.num_paths THEN <<>>
        ELSE << Fmt([tag |-> "hatch-path-open", id |-> <<i, k - 1>>]) >>
             \o output_hatch_path_data(hatch.paths[k])
             \o << Fmt([tag |-> "style-outline", args |-> <<lweight>>,
                        color |-> fill_color]) >>
             \o Outline(k + 1)
  IN IF entity_invisible(d, hatch) THEN <<>>
     ELSE IF hatch.num_paths = 0 THEN <<>>
     ELSE << Comment("hatch", i) >>
          \o (IF hatch.is_solid_fill # 0
              THEN << Fmt([tag |-> "path-open", id |-> <<i>>]) >>
                   \o Solid(1)
                   \o << Fmt([tag |-> "style-fill", color |-> fill_color]) >>
              ELSE Outline(1))

output_INSERT(d, i) ==
  LET insert == d.object[i]
      blk_obj == d.object[insert.block_header.obj]
      ins_pt == transform_OCS(insert.ins_pt, insert.extrusion)
      \* -(180.0 / M_PI) * rotation with the rotation in quarter turns
      rotation_deg == fmul(F(-90), insert.rotation)
      sx == insert.scale[1]
      sy == insert.scale[2]
      tx == fsub(fsub(ins_pt[1], fmul(sx, blk_obj.base_pt[1])), model_ext.xmin)
      ty == fadd(fadd(fsub(page.height, ins_pt[2]), fmul(sy, blk_obj.base_pt[2])),
                 model_ext.ymin)
  IN IF entity_invisible(d, insert) THEN <<>>
     ELSE IF insert.block_header.absolute_ref # 0 /\ insert.block_header.obj # 0
     THEN IF blk_obj.kind # "BLOCK_HEADER" THEN <<>>
          ELSE IF isnan_3BD(insert.ins_pt) \/ isnan_3BD(insert.extrusion)
                  \/ isnan(insert.rotation) \/ isnan_3BD(insert.scale)
          THEN <<>>
          ELSE << Comment("insert", i),
                  IF flt(fabs(insert.rotation), F(1))
                  THEN Fmt([tag |-> "use-matrix", id |-> <<i>>,
                            href |-> insert.block_header.absolute_ref,
                            args |-> <<sx, fneg(sy), tx, ty>>])
                  ELSE Fmt([tag |-> "use-rotate", id |-> <<i>>,
                            href |-> insert.block_header.absolute_ref,
                            args |-> <<tx, ty, rotation_deg, sx, fneg(sy)>>]) >>
     ELSE << Fmt([tag |-> "comment-wrong-insert", ints |-> <<i>>]) >>

output_IMAGE(d, i) ==
  LET img == d.object[i]
      def == d.object[img.imagedef.obj]
      file_path == IF img.imagedef.obj # 0 /\ def.kind = "IMAGEDEF"
                      /\ ~def.file_path.null
                   THEN htmlescape(def.file_path) ELSE NULLSTR
      width == img.image_size[1]
      height == img.image_size[2]
      vx == fmul(img.vvec[1], height)
      vy == fmul(img.vvec[2], height)
      x == fadd(img.pt0[1], vx)
      y == fadd(img.pt0[2], vy)
  IN IF entity_invisible(d, img) THEN <<>>
     ELSE IF isnan_3BD(img.pt0) \/ isnan_3BD(img.uvec) \/ isnan_3BD(img.vvec)
             \/ isnan(img.image_size[1]) \/ isnan(img.image_size[2])
     THEN <<>>
     ELSE << Comment("image", i),
             Fmt([tag |-> "image", id |-> <<i>>,
                  args |-> <<width, height, img.uvec[1], fneg(img.uvec[2]),
                             fneg(img.vvec[1]), img.vvec[2],
                             transform_X(x), transform_Y(y)>>,
                  str |-> IF file_path.null THEN Str(<<>>) ELSE file_path]) >>

\* output_object: the printf calls of the entity and the count it returns
output_object(d, i) ==
  LET kind == d.object[i].kind
      Out(printed) == [printed |-> printed, num |-> 1]
  IN CASE kind = "IMAGE" -> Out(output_IMAGE(d, i))
       [] kind = "INSERT" -> Out(output_INSERT(d, i))
       [] kind = "LINE" -> Out(output_LINE(d, i))
       [] kind = "CIRCLE" -> Out(output_CIRCLE(d, i))
       [] kind = "TEXT" -> Out(output_TEXT(d, i))
       [] kind = "ATTDEF" -> Out(output_ATTDEF(d, i))
       [] kind = "ARC" -> Out(output_ARC(d, i))
       [] kind = "POINT" -> Out(output_POINT(d, i))
       [] kind = "ELLIPSE" -> Out(output_ELLIPSE(d, i))
       [] kind = "SOLID" -> Out(output_SOLID(d, i))
       [] kind = "3DFACE" -> Out(output_3DFACE(d, i))
       [] kind = "POLYLINE_2D" -> Out(output_POLYLINE_2D(d, i))
       [] kind = "LWPOLYLINE" -> Out(output_LWPOLYLINE(d, i))
       [] kind = "RAY" -> Out(output_RAY(d, i))
       [] kind = "XLINE" -> Out(output_XLINE(d, i))
       [] kind = "HATCH" -> Out(output_HATCH(d, i))
       [] OTHER -> [printed |-> <<>>, num |-> 0]

-----------------------------------------------------------------------------
(* The output sinks (src/src/dwg_svg_api.c) *)

\* sizeof (buf) of dwg_svg_printf
PrintfBufSize == 8192
\* the first capacity of dwg_svg_buffer_writer
InitialCap == 8192

\* dwg_svg_printf: the chunk handed to the writer is the formatted text cut
\* to at most sizeof (buf) - 1 bytes
dwg_svg_printf(c) ==
  c @@ [len |-> IF c.n >= PrintfBufSize THEN PrintfBufSize - 1 ELSE c.n]

\* dwg_svg_buffer: data NULL or allocated, the bytes stored (as chunks), the
\* index of the last NUL written
ZeroBuffer == [alloc |-> FALSE, chunks |-> <<>>, len |-> 0, cap |-> 0, nul |-> -1]

\* a capacity that grows to exactly what is needed
GrownToFit(new_cap, need) == IF new_cap < need THEN need ELSE new_cap

RECURSIVE Doubled(_, _)
Doubled(new_cap, need) == IF new_cap < need THEN Doubled(new_cap * 2, need) ELSE new_cap

BufferGrows(b, chunk) == chunk.len # 0 /\ b.len + chunk.len + 1 > b.cap

\* realloc_ok: whether the realloc of this call, if any, succeeds
dwg_svg_buffer_writer(b, chunk, realloc_ok) ==
  IF chunk.len = 0 THEN b
  ELSE IF BufferGrows(b, chunk) /\ ~realloc_ok THEN b
  ELSE [alloc |-> TRUE,
        chunks |-> Append(b.chunks, chunk),
        len |-> b.len + chunk.len,
        cap |-> IF BufferGrows(b, chunk)
                THEN Doubled(IF b.cap # 0 THEN b.cap * 2 ELSE InitialCap,
                             b.len + chunk.len + 1)
                ELSE b.cap,
        nul |-> b.len + chunk.len]

\* dwg_svg_file_writer: what fwrite appends to the FILE
dwg_svg_file_writer(f, chunk) == IF chunk.len = 0 THEN f ELSE Append(f, chunk)

\* the buffers a run of writer calls can leave, each realloc failing or not
RECURSIVE BufferOutcomes(_, _, _)
BufferOutcomes(bs, chunks, may_fail) ==
  IF chunks = <<>> THEN bs
  ELSE BufferOutcomes(
         UNION { {dwg_svg_buffer_writer(b, chunks[1], TRUE)}
                 \cup (IF may_fail /\ BufferGrows(b, chunks[1])
                       THEN {dwg_svg_buffer_writer(b, chunks[1], FALSE)} ELSE {})
                 : b \in bs },
         Tail(chunks), may_fail)

RECURSIVE FileOutcome(_, _)
FileOutcome(f, chunks) ==
  IF chunks = <<>> THEN f
  ELSE FileOutcome(dwg_svg_file_writer(f, chunks[1]), Tail(chunks))

\* the printf calls of one step reach the active writer in order: the
\* callback in g_svg_writer, called with g_svg_writer_user (the sink of the
\* thread that stored it), or fwrite to stdout when g_svg_writer is NULL
Emit(printed) ==
  LET chunks == [k \in 1..Len(printed) |-> dwg_svg_printf(printed[k])]
  IN /\ handed' = handed \o chunks
     /\ IF g_svg_writer = "NULL"
        THEN /\ stdout' = FileOutcome(stdout,
                          [k \in 1..Len(printed) |-> printed[k] @@ [len |-> printed[k].n]])
             /\ UNCHANGED <<buf, file, peer>>
        ELSE IF g_svg_writer_user = "peer"
        THEN /\ IF g_svg_writer = "buffer"
                THEN \E b \in BufferOutcomes({peer.buf}, chunks, env.oom) :
                       peer' = [peer EXCEPT !.buf = b]
                ELSE peer' = [peer EXCEPT !.file = FileOutcome(peer.file, chunks)]
             /\ UNCHANGED <<buf, file, stdout>>
        ELSE /\ IF g_svg_writer = "buffer"
                THEN /\ buf' \in BufferOutcomes({buf}, chunks, env.oom)
                     /\ file' = file
                ELSE /\ file' = FileOutcome(file, chunks)
                     /\ buf' = buf
             /\ UNCHANGED <<stdout, peer>>

-----------------------------------------------------------------------------
(* The drawings offered to the entry points *)

Hidden(e) == [e EXCEPT !.invisible = 1]
OnLayer(e, l) == [e EXCEPT !.layer = Ref(l)]

\* a visible line spanning (0,0)-(8,6)
Anchor == LINE(0, 0, 8, 6)

BulgePath == PolyPath(<<PP(0, 0, 1), PP(10, 0, 0), PP(10, 8, 0)>>, 1, 1)
LinesPath == SegPath(<<SegLine(0, 0, 10, 0), SegLine(10, 0, 10, 8), SegOther(0)>>)

\* one entity of every kind the dispatcher knows, reaching outside the anchor
Samples ==
  << LINE(1, 2, 12, 9),
     XLINE(2, 2, 1, 1, 1),
     RAY(2, 2, 1, 1, 1),
     CIRCLE(9, 9, 3),
     POINT(10, 1),
     ARC(9, 9, 2, 0, 1),
     ELLIPSE(9, 9, 2, 0, 1),
     SOLID(P2(0, 0), P2(10, 0), P2(0, 7), P2(10, 7)),
     FACE3D(P3(0, 0, 0), P3(10, 0, 0), P3(10, 7, 0), P3(0, 7, 0), 0),
     FACE3D(P3(0, 0, 0), P3(10, 0, 0), P3(10, 7, 0), P3(0, 7, 0), 5),
     POLYLINE_2D(<<Ref(10), Ref(11), Ref(12), Ref(13)>>, 1),
     LWPOLYLINE(<<P2(0, 0), P2(10, 0), P2(10, 8)>>, 512),
     HATCH(<<BulgePath>>, 1),
     HATCH(<<LinesPath, BulgePath>>, 0),
     INSERT(Ref(8), 9, 9, 2, 1, 0),
     INSERT(Ref(8), 9, 9, 1, 1, 1),
     TEXT(9, 9, 179, <<"a","<","b">>),
     ATTDEF(9, 9, 154, 1, <<"T","A","G">>),
     IMAGE(9, 9, 4, 3, Ref(14)),
     VIEWPORT,
     MTEXT >>

\* the sample alone with the anchor in model space, in each visibility state
InModelSpace(e) ==
  << [Plan EXCEPT !.ms = <<Anchor, e>>],
     [Plan EXCEPT !.ms = <<Anchor, Hidden(e)>>],
     [Plan EXCEPT !.ms = <<OnLayer(e, 2), Anchor>>],
     [Plan EXCEPT !.ms = <<Anchor, OnLayer(e, 3)>>] >>

\* the sample in paper space and in an inserted block, visible and frozen
InPaperSpaceOrBlock(e) ==
  << [Plan EXCEPT !.ps = <<e>>, !.ms = <<Anchor>>, !.has_ps = TRUE],
     [Plan EXCEPT !.ps = <<Anchor, OnLayer(e, 3)>>, !.has_ps = TRUE],
     [Plan EXCEPT !.b1 = <<e>>, !.ms = <<INSERT(Ref(7), 0, 0, 1, 1, 0), Anchor>>],
     [Plan EXCEPT !.b1 = <<OnLayer(e, 3), Anchor>>,
                  !.ms = <<INSERT(Ref(7), 1, 1, 1, 1, 0)>>] >>

RECURSIVE Flatten(_)
Flatten(ss) == IF ss = <<>> THEN <<>> ELSE ss[1] \o Flatten(Tail(ss))

PerKind ==
  Flatten([k \in 1..Len(Samples) |->
             InModelSpace(Samples[k]) \o InPaperSpaceOrBlock(Samples[k])])

LongText == [TEXT(1, 1, 179, <<"x">>) EXCEPT !.text_value.rep = 9000]

\* drawings that differ in structure: spaces, block table, names, bad values
Structural ==
  << \* 1..3: the inputs of the replay
     [Plan EXCEPT !.extmin = P3(0, 0, 0), !.extmax = P3(20, 10, 0)],
     [Plan EXCEPT !.ms = <<LINE(2, 3, 7, 5), INSERT(Ref(8), 4, 4, 1, 1, 0)>>],
     [Plan EXCEPT !.ps = <<CIRCLE(5, 5, 2)>>, !.ms = <<Anchor>>, !.has_ps = TRUE],
     \* header extents used as fallback
     [Plan EXCEPT !.extmin = <<NAN, F(0), F(0)>>, !.extmax = P3(20, 10, 0)],
     [Plan EXCEPT !.extmin = P3(5, 5, 0), !.extmax = P3(5, 1, 0)],
     [Plan EXCEPT !.extmin = P3(0, 0, 0), !.extmax = <<INFINITY, F(10), F(0)>>],
     [Plan EXCEPT !.has_ms = FALSE, !.extmax = P3(20, 10, 0)],
     \* degenerate and unbounded geometry
     [Plan EXCEPT !.ms = <<POINT(3, 3)>>],
     [Plan EXCEPT !.ms = <<LINE(0, 0, 5, 0)>>],
     [Plan EXCEPT !.ms = <<[Anchor EXCEPT !.end = <<INFINITY, F(6), F(0)>>]>>],
     \* paper space that prints nothing, or only counts
     [Plan EXCEPT !.ps = <<VIEWPORT>>, !.ms = <<Anchor>>, !.has_ps = TRUE],
     [Plan EXCEPT !.ps = <<Hidden(Anchor)>>, !.ms = <<Anchor>>, !.has_ps = TRUE],
     [Plan EXCEPT !.ps = <<>>, !.ms = <<Anchor>>, !.has_ps = TRUE],
     \* block table: listed twice, absent, spaces as INSERT targets, nesting
     [Plan EXCEPT !.ms = <<INSERT(Ref(8), 4, 4, 1, 1, 0)>>,
                  !.entries = <<Ref(8), Ref(7), Ref(8)>>],
     [Plan EXCEPT !.ms = <<INSERT(Ref(8), 4, 4, 1, 1, 0)>>, !.entries = <<Ref(7)>>],
     [Plan EXCEPT !.ms = <<Anchor>>, !.b1 = <<INSERT(Ref(5), 1, 1, 1, 1, 0)>>],
     [Plan EXCEPT !.ms = <<INSERT(Ref(9), 1, 1, 1, 1, 0)>>, !.b3 = <<Anchor>>,
                  !.entries = <<Ref(7), Ref(8), Ref(9)>>],
     [Plan EXCEPT !.ms = <<INSERT(Ref(7), 2, 3, 2, 2, 0)>>,
                  !.b1 = <<INSERT(Ref(8), 1, 1, 1, 1, 2), CIRCLE(0, 0, 1)>>],
     [Plan EXCEPT !.ms = <<Anchor, INSERT(NULLREF, 1, 1, 1, 1, 0)>>],
     [Plan EXCEPT !.ms = <<Anchor, INSERT(DanglingRef, 1, 1, 1, 1, 0)>>],
     [Plan EXCEPT !.ms = <<Anchor, INSERT(Ref(1), 1, 1, 1, 1, 0)>>],
     [Plan EXCEPT !.ms = <<Anchor>>,
                  !.entries = <<NULLREF, DanglingRef, Ref(1), Ref(5), Ref(6), Ref(8)>>],
     [Plan EXCEPT !.ms = <<Anchor>>, !.entries = <<>>],
     \* block names
     [Plan EXCEPT !.ms = <<INSERT(Ref(7), 4, 4, 1, 1, 0)>>, !.b1 = <<Anchor>>,
                  !.name1 = NULLSTR],
     [Plan EXCEPT !.ms = <<INSERT(Ref(7), 4, 4, 1, 1, 0)>>, !.b1 = <<Anchor>>,
                  !.name1 = UpperModelSpaceName],
     [Plan EXCEPT !.ms = <<INSERT(Ref(7), 4, 4, 1, 1, 0)>>, !.b1 = <<Anchor>>,
                  !.base1 = P3(1, 2, 0)],
     \* extrusion along -Z
     [Plan EXCEPT !.ms = <<[LINE(1, 2, 5, 4) EXCEPT !.extrusion = NegZAxis], Anchor>>],
     [Plan EXCEPT !.ms = <<[CIRCLE(3, 3, 2) EXCEPT !.extrusion = NegZAxis]>>],
     \* a text longer than the printf buffer
     [Plan EXCEPT !.ms = <<LongText, Anchor>>],
     [Plan EXCEPT !.ms = <<Anchor>>, !.b1 = <<LongText, LongText>>],
     \* entities with a missing part or a NaN
     [Plan EXCEPT !.ms = <<Anchor, [LINE(1, 2, 5, 4) EXCEPT !.start = <<NAN, F(2), F(0)>>]>>],
     [Plan EXCEPT !.ms = <<Anchor, [CIRCLE(3, 3, 2) EXCEPT !.radius = NAN]>>],
     [Plan EXCEPT !.ms = <<Anchor, [ARC(3, 3, 2, 0, 1) EXCEPT !.end_angle = NAN]>>],
     [Plan EXCEPT !.ms = <<Anchor, [TEXT(1, 1, 179, <<"a">>) EXCEPT !.height = NAN]>>],
     [Plan EXCEPT !.ms = <<Anchor, [TEXT(1, 1, 179, <<"a">>) EXCEPT !.text_value = NULLSTR]>>],
     [Plan EXCEPT !.ms = <<Anchor,
        [SOLID(P2(0, 0), P2(4, 0), P2(0, 3), P2(4, 3))
           EXCEPT !.extrusion = <<NAN, F(0), F(1)>>]>>],
     [Plan EXCEPT !.ms = <<Anchor, [INSERT(Ref(8), 4, 4, 1, 1, 0)
                                      EXCEPT !.scale = <<NAN, F(1), F(1)>>]>>],
     [Plan EXCEPT !.ms = <<Anchor,
        LWPOLYLINE(<<P2(0, 0), <<NAN, F(1)>>, P2(4, 3)>>, 0)>>],
     [Plan EXCEPT !.ms = <<Anchor,
        LWPOLYLINE(<<<<NAN, F(1)>>, P2(0, 0), P2(4, 3)>>, 0)>>],
     [Plan EXCEPT !.ms = <<Anchor, LWPOLYLINE(<<>>, 0)>>],
     [Plan EXCEPT !.ms = <<Anchor, POLYLINE_2D(<<>>, 0)>>],
     [Plan EXCEPT !.ms = <<Anchor, HATCH(<<>>, 1)>>],
     [Plan EXCEPT !.ms = <<Anchor,
        HATCH(<<PolyPath(<<PP(1, 1, 1), PP(1, 1, 0), PP(4, 1, 0)>>, 1, 0)>>, 1)>>],
     [Plan EXCEPT !.ms = <<Anchor,
        HATCH(<<PolyPath(<<PP(1, 1, 0), [PP(2, 2, 0) EXCEPT !.point = <<NAN, F(2)>>],
                           PP(4, 1, 0)>>, 0, 1)>>, 1)>>],
     \* a HATCH bounded by arcs and splines
     [Plan EXCEPT !.ms = <<Anchor,
        HATCH(<<SegPath(<<SegArc(5, 5, 2, 0, 1, 1), SegEllipse(5, 5, 2, 0, 1, 0, 3, 0),
                          SegSpline(<<P2(1, 1), <<NAN, F(0)>>, P2(3, 4)>>, <<P2(0, 9)>>),
                          SegSpline(<<>>, <<P2(2, 2), P2(12, 2)>>)>>)>>, 1)>>],
     [Plan EXCEPT !.ms = <<Anchor,
        HATCH(<<SegPath(<<SegSpline(<<<<NAN, F(0)>>>>, <<>>),
                          [SegArc(5, 5, 2, 0, 1, 0) EXCEPT !.radius = NAN],
                          SegArc(5, 5, 2, 1, 0, 0)>>)>>, 0)>>],
     [Plan EXCEPT !.ms = <<Anchor, XLINE(2, 2, 1, 0, 0)>>],
     [Plan EXCEPT !.ms = <<Anchor, XLINE(20, 2, 1, -1, 1)>>],
     [Plan EXCEPT !.ms = <<Anchor, RAY(2, 2, 0, 1, 0)>>],
     \* an entity whose layer reference is not a LAYER, or is missing
     [Plan EXCEPT !.ms = <<OnLayer(Anchor, 4), [Anchor EXCEPT !.layer = NULLREF]>>],
     \* a rotated INSERT, of a block with and without a base point
     [Plan EXCEPT !.ms = <<INSERT(Ref(7), 4, 4, 2, 3, 1)>>, !.b1 = <<LINE(1, 0, 3, 2)>>],
     [Plan EXCEPT !.ms = <<INSERT(Ref(7), 4, 4, 2, 3, 1)>>, !.b1 = <<LINE(1, 0, 3, 2)>>,
                  !.base1 = P3(1, 2, 0)],
     \* the paper-space block as an INSERT target and as a table entry
     [Plan EXCEPT !.ps = <<CIRCLE(20, 20, 2)>>, !.has_ps = TRUE,
                  !.ms = <<Anchor, INSERT(Ref(6), 0, 0, 1, 1, 0)>>],
     [Plan EXCEPT !.ps = <<CIRCLE(20, 20, 2)>>, !.has_ps = TRUE, !.ms = <<Anchor>>,
                  !.entries = <<Ref(6), Ref(7)>>],
     \* lineweights of the entity itself: 2.11 mm, 0.05 mm, 0.25 mm, BYBLOCK
     [Plan EXCEPT !.ms = <<[Anchor EXCEPT !.linewt = 23],
                           [LINE(1, 2, 5, 4) EXCEPT !.linewt = 1],
                           [LINE(1, 2, 5, 4) EXCEPT !.linewt = 7],
                           [LINE(1, 2, 5, 4) EXCEPT !.linewt = 30]>>] >>

\* the drawings of plans[lo..hi], in order
RECURSIVE MkDwgs(_, _, _)
MkDwgs(plans, lo, hi) ==
  IF lo > hi THEN <<>>
  ELSE IF lo = hi THEN <<MkDwg(plans[lo])>>
  ELSE MkDwgs(plans, lo, (lo + hi) \div 2) \o MkDwgs(plans, (lo + hi) \div 2 + 1, hi)

AllDwgs(plans) == MkDwgs(plans, 1, Len(plans))

DWGS == AllDwgs(Structural \o PerKind)

\* the drawings of the replay: an empty one, one in model space, one with
\* paper space
ReplayInputs == 1..3

\* the drawings of the two threads: one in model space, one with paper space
ThreadInputs == {2, 3}

\* INSERT of the block at index b of the object table
Use(b) == INSERT(Ref(b), 2, 1, 1, 1, 0)

\* drawings whose blocks insert one another: nested and shared blocks without
\* a cycle; a block that inserts itself or an ancestor, inserted from model
\* space, from paper space, from nowhere, or only by an INSERT that is
\* invisible or holds a NaN; model space inserting itself
Nested ==
  << Plan,
     [Plan EXCEPT !.ms = <<Anchor, Use(7)>>, !.b1 = <<LINE(1, 1, 3, 2), Use(8)>>],
     [Plan EXCEPT !.ms = <<Use(7), Use(8)>>, !.b1 = <<Use(8), Use(9)>>,
                  !.b3 = <<CIRCLE(4, 4, 1)>>],
     [Plan EXCEPT !.ms = <<Anchor, Use(7)>>, !.b1 = <<LINE(1, 1, 3, 2), Use(7)>>],
     [Plan EXCEPT !.ms = <<Use(7)>>, !.b1 = <<Use(8)>>, !.b2 = <<Anchor, Use(7)>>],
     [Plan EXCEPT !.ms = <<Anchor>>, !.b1 = <<Anchor, Use(7)>>],
     [Plan EXCEPT !.ms = <<Anchor, Hidden(Use(7))>>, !.b1 = <<Use(7)>>],
     [Plan EXCEPT !.ms = <<Anchor, Use(7)>>,
                  !.b1 = <<Anchor, [Use(7) EXCEPT !.rotation = NAN]>>],
     [Plan EXCEPT !.ms = <<Anchor>>, !.ps = <<Use(7)>>, !.has_ps = TRUE,
                  !.b1 = <<Use(7)>>],
     [Plan EXCEPT !.ms = <<Anchor, Use(5)>>] >>

NDWGS == AllDwgs(Nested)

\* colour specifiers: each index range, the true-colour flag 0x80 with and
\* without bit 0x40, the layer encoding 0xC3 with and without the flag, other
\* top bytes (1193046 = 0x123456, 657930 = 0x0a0a0a)
Swatches ==
  << CMC(0, BL(0, 0), 0), CMC(1, BL(0, 0), 0), CMC(2, BL(0, 0), 0),
     CMC(3, BL(0, 0), 0), CMC(4, BL(0, 0), 0), CMC(5, BL(0, 0), 0),
     CMC(6, BL(0, 0), 0), CMC(7, BL(0, 255), 128), CMC(8, BL(0, 0), 0),
     CMC(255, BL(0, 1193046), 128), CMC(256, BL(0, 0), 0),
     CMC(256, BL(0, 1193046), 128), CMC(256, BL(255, 1193046), 128),
     CMC(256, BL(0, 1193046), 192), CMC(256, BL(195, 5), 0),
     CMC(256, BL(195, 5), 128), CMC(256, BL(195, 0), 0),
     CMC(256, BL(195, 200), 192), CMC(256, BL(194, 5), 0),
     CMC(257, BL(195, 5), 0), CMC(0, BL(0, 657930), 128),
     CMC(0, BL(195, 5), 64), CMC(300, BL(0, 11), 129) >>

Dyed(e, c) == [e EXCEPT !.color = c]
Recolored(d, l, c) ==
  [d EXCEPT !.object = SubSeq(d.object, 1, l - 1)
                       \o << [d.object[l] EXCEPT !.color = c] >>
                       \o SubSeq(d.object, l + 1, Len(d.object))]

\* lines of the colours from..to on no layer
Unlayered(from, to) ==
  [Plan EXCEPT !.ms =
     [k \in 1..(to - from + 1) |->
        [Dyed(LINE(k, 0, k + 1, 3), Swatches[from + k - 1]) EXCEPT !.layer = NULLREF]]]

\* lines on a reference that is not a LAYER, or that does not resolve
Mislayered ==
  [Plan EXCEPT !.ms =
     << OnLayer(Dyed(Anchor, CMC(256, BL(195, 5), 0)), 4),
        OnLayer(Dyed(Anchor, CMC(256, BL(0, 1193046), 128)), 4),
        [Dyed(Anchor, CMC(5, BL(0, 0), 0)) EXCEPT !.layer = DanglingRef] >>]

\* lines on layer "0": by layer, by layer with a colour of their own behind
\* it, with an index of their own
Layered ==
  [Plan EXCEPT !.ms =
     << Anchor, Dyed(LINE(1, 2, 5, 4), CMC(256, BL(0, 1193046), 128)),
        Dyed(LINE(1, 2, 5, 4), CMC(3, BL(0, 0), 0)),
        Dyed(LINE(1, 2, 5, 4), CMC(0, BL(0, 0), 0)) >>,
     !.b1 = << CIRCLE(1, 1, 1) >>, !.ps = << POINT(1, 1) >>, !.has_ps = TRUE]

\* a text and two hatches by layer
LayeredFills ==
  [Plan EXCEPT !.ms = << TEXT(2, 2, 179, <<"a">>), HATCH(<<BulgePath>>, 1),
                         HATCH(<<LinesPath>>, 0) >>]

\* lines of every colour without a layer, and the layered drawings with
\* layer "0" in each colour
Colours ==
  AllDwgs(<< Unlayered(1, 6), Unlayered(7, 12), Unlayered(13, 18),
             Unlayered(19, 23), Mislayered >>)
  \o [k \in 1..Len(Swatches) |-> Recolored(MkDwg(Layered), 1, Swatches[k])]
  \o [k \in 1..Len(Swatches) |-> Recolored(MkDwg(LayeredFills), 1, Swatches[k])]

\* a SOLID and 3DFACEs with four different corners, in model space and in an
\* inserted block
Faces ==
  << [Plan EXCEPT !.ms =
        << SOLID(P2(0, 0), P2(10, 0), P2(0, 7), P2(10, 7)),
           FACE3D(P3(0, 0, 0), P3(10, 0, 0), P3(10, 7, 0), P3(0, 7, 0), 0),
           FACE3D(P3(0, 0, 0), P3(10, 0, 0), P3(10, 7, 0), P3(0, 7, 0), 5) >>],
     [Plan EXCEPT !.b1 = << SOLID(P2(1, 1), P2(5, 1), P2(1, 4), P2(5, 4)),
                            FACE3D(P3(1, 1, 0), P3(5, 1, 0), P3(5, 4, 0), P3(1, 4, 0), 0) >>,
                  !.ms = << INSERT(Ref(7), 2, 2, 1, 1, 0), Anchor >>] >>

\* circles: radius 0, a NaN in the extrusion only, in the radius, in the
\* centre, a negative radius, hidden, on a frozen layer, mirrored, in a block
Circles ==
  << [Plan EXCEPT !.ms = << Anchor, CIRCLE(3, 3, 0), CIRCLE(4, 3, 2) >>],
     [Plan EXCEPT !.ms = << CIRCLE(3, 3, 0) >>],
     [Plan EXCEPT !.ms =
        << Anchor, [CIRCLE(3, 3, 2) EXCEPT !.extrusion = <<F(0), NAN, F(1)>>],
           [CIRCLE(3, 3, 2) EXCEPT !.radius = NAN],
           [CIRCLE(3, 3, 2) EXCEPT !.center = <<F(3), NAN, F(0)>>] >>],
     [Plan EXCEPT !.ms =
        << Anchor, CIRCLE(3, 3, -2), Hidden(CIRCLE(3, 3, 2)),
           OnLayer(CIRCLE(3, 3, 2), 3),
           [CIRCLE(3, 3, 2) EXCEPT !.extrusion = NegZAxis] >>],
     [Plan EXCEPT !.b1 = << CIRCLE(1, 1, 0), CIRCLE(1, 1, 1) >>,
                  !.ms = << INSERT(Ref(7), 2, 2, 1, 1, 0), Anchor >>] >>

\* documents longer than the first capacities of the string buffer
Long ==
  << [Plan EXCEPT !.ms = << LongText, Anchor, LongText, LongText >>],
     [Plan EXCEPT !.ms = << Anchor >>, !.b1 = << LongText >>] >>

\* texts with a width factor of their own, of the style, of neither; tags
\* scaled, rotated, and both
Texts ==
  << [Plan EXCEPT !.ms =
        << Anchor, [TEXT(4, 2, 179, <<"a">>) EXCEPT !.width_factor = F(2)],
           [TEXT(4, 2, 179, <<"a">>) EXCEPT !.width_factor = F(0)],
           [TEXT(4, 2, 179, <<"a">>) EXCEPT !.width_factor = F(0),
                                            !.style = NULLREF] >>],
     [Plan EXCEPT !.ms =
        << Anchor, ATTDEF(5, 3, 154, 0, <<"T">>),
           [ATTDEF(5, 3, 154, 1, <<"T">>) EXCEPT !.width_factor = F(1)],
           [ATTDEF(5, 3, 154, 3, <<"T">>) EXCEPT !.width_factor = F(0)] >>],
     [Plan EXCEPT !.ms = << Anchor, ATTDEF(5, 3, 154, 1, <<"T">>) >>],
     [Plan EXCEPT !.ms = << Anchor, ATTDEF(-1, 3, 154, 2, <<"T">>) >>] >>

\* construction lines and rays next to the line (0,0)-(8,6): through the
\* box along the diagonal, missing the box, pointing away, along an axis
Rays ==
  << [Plan EXCEPT !.ms = << Anchor, XLINE(2, 2, 1, 1, 1) >>],
     [Plan EXCEPT !.ms = << Anchor, RAY(2, 2, 1, 1, 1) >>],
     [Plan EXCEPT !.ms = << Anchor, XLINE(20, 2, 1, -1, 1) >>],
     [Plan EXCEPT !.ms = << Anchor, RAY(2, 2, -1, -1, 1), RAY(9, 9, 1, 1, 1) >>],
     [Plan EXCEPT !.ms = << Anchor, XLINE(2, 2, 1, 0, 0), XLINE(4, 3, 1, 1, 0) >>] >>

\* an ARC, a HATCH with a bulge and a HATCH with a circular-arc segment, in a
\* block inserted unrotated with positive scales, and in model space
Arcs ==
  << [Plan EXCEPT !.b1 = << ARC(3, 3, 2, 0, 1) >>,
                  !.ms = << INSERT(Ref(7), 1, 1, 1, 1, 0), Anchor >>],
     [Plan EXCEPT !.b1 = << HATCH(<<BulgePath>>, 1) >>,
                  !.ms = << INSERT(Ref(7), 1, 1, 2, 1, 0), Anchor >>],
     [Plan EXCEPT !.b1 = << HATCH(<<SegPath(<<SegArc(5, 5, 2, 0, 1, 1),
                                              SegArc(5, 5, 2, 1, 0, 0)>>)>>, 0) >>,
                  !.ms = << INSERT(Ref(7), 1, 1, 1, 3, 0), Anchor >>],
     [Plan EXCEPT !.ms = << ARC(3, 3, 2, 0, 1), ARC(3, 3, 2, 0, 3), Anchor >>] >>

\* outlines: a closed POLYLINE_2D of skipped vertices only and one of kept
\* vertices, a closed LWPOLYLINE, HATCH polyline paths whose first point is
\* NaN (plain, and closing with a bulge), a NaN point before a bulged
\* segment, HATCH segment paths of an unsupported curve type and of skipped
\* segments only
Paths ==
  << [Plan EXCEPT !.ms = << Anchor, POLYLINE_2D(<<Ref(12), Ref(13)>>, 1),
                            POLYLINE_2D(<<Ref(12), Ref(10), Ref(11)>>, 1),
                            LWPOLYLINE(<<P2(1, 1), P2(4, 1), P2(4, 5)>>, 512) >>],
     [Plan EXCEPT !.ms =
        << Anchor,
           HATCH(<<PolyPath(<<[PP(1, 1, 0) EXCEPT !.point = <<NAN, F(1)>>],
                              PP(4, 1, 0), PP(4, 5, 0)>>, 0, 1)>>, 1),
           HATCH(<<PolyPath(<<[PP(1, 1, 0) EXCEPT !.point = <<NAN, F(1)>>],
                              [PP(4, 1, 1) EXCEPT !.point = <<F(4), NAN>>]>>,
                            1, 1)>>, 0) >>],
     [Plan EXCEPT !.ms =
        << Anchor,
           HATCH(<<PolyPath(<<PP(1, 1, 0),
                              [PP(4, 1, 1) EXCEPT !.point = <<NAN, F(1)>>],
                              PP(4, 5, 0)>>, 1, 0)>>, 0) >>],
     [Plan EXCEPT !.ms =
        << Anchor, HATCH(<<SegPath(<<SegOther(9)>>)>>, 0),
           HATCH(<<SegPath(<<[SegLine(1, 1, 4, 1)
                                EXCEPT !.first_endpoint = <<NAN, F(1)>>]>>),
                   SegPath(<<SegLine(1, 1, 4, 1), SegLine(4, 1, 4, 5)>>)>>, 1) >>] >>

\* drawings whose extents do not start at the origin: the transformed
\* entities, a 3DFACE reaching the right edge, a TEXT and an ATTDEF placed by
\* an alignment point outside the box of their insertion points, an IMAGE
Views ==
  << [Plan EXCEPT !.ms =
        << LINE(2, 2, 12, 9), POINT(4, 5), CIRCLE(6, 6, 2), ARC(6, 6, 2, 0, 1),
           SOLID(P2(2, 2), P2(6, 2), P2(2, 5), P2(6, 5)) >>],
     [Plan EXCEPT !.ms =
        << LINE(2, 2, 12, 9), POLYLINE_2D(<<Ref(10), Ref(11)>>, 0),
           LWPOLYLINE(<<P2(3, 3), P2(14, 3), P2(14, 5)>>, 512),
           TEXT(3, 3, 1, <<"a">>), IMAGE(3, 3, 4, 2, Ref(14)) >>],
     [Plan EXCEPT !.ms =
        << LINE(2, 2, 12, 9),
           FACE3D(P3(3, 3, 0), P3(20, 3, 0), P3(20, 4, 0), P3(3, 4, 0), 0) >>],
     [Plan EXCEPT !.ms =
        << LINE(2, 2, 12, 9),
           [TEXT(3, 3, 1, <<"a">>) EXCEPT !.horiz_alignment = 1,
                                          !.alignment_pt = P2(-50, 3)],
           [ATTDEF(3, 3, 1, 0, <<"T">>) EXCEPT !.alignment_pt = P2(3, 60)] >>] >>

\* the drawings of SpecGallery
GDWGS ==
  Colours
  \o AllDwgs(Faces \o Circles \o Long \o Texts \o Rays \o Arcs \o Paths \o Views)

-----------------------------------------------------------------------------
(* Error codes of dwg.h *)

DWG_ERR_VALUEOUTOFBOUNDS == 64
DWG_ERR_CRITICAL == 128
DWG_ERR_INVALIDDWG == 2048
DWG_ERR_IOERROR == 4096
DWG_ERR_OUTOFMEM == 8192

\* what dwg_read_file can return: success, a non-critical and two critical errors
ParseErrors == {0, DWG_ERR_VALUEOUTOFBOUNDS, DWG_ERR_CRITICAL, DWG_ERR_INVALIDDWG}

-----------------------------------------------------------------------------
(* The driver (src/programs/dwg2SVG.c) *)

D == DWGS[dwg]

dwg_model_x_min(d) == d.extmin[1]
dwg_model_y_min(d) == d.extmin[2]
dwg_model_x_max(d) == d.extmax[1]
dwg_model_y_max(d) == d.extmax[2]

\* compute_modelspace_extents that keeps the old viewport when it finds no
\* geometry
compute_modelspace_extents_stale(d) ==
  LET paper_space(ext) ==
        IF mspace = 0 /\ dwg_paper_space_ref(d) # NULLREF
        THEN compute_block_extents(ext, d, dwg_paper_space_ref(d))
        ELSE ext
      model_space(ext) ==
        IF dwg_model_space_ref(d) # NULLREF
        THEN compute_block_extents(ext, d, dwg_model_space_ref(d))
        ELSE ext
      result(ext) ==
        IF ext.initialized # 0
        THEN [xmin |-> ext.xmin, ymin |-> ext.ymin, xmax |-> ext.xmax, ymax |-> ext.ymax]
        ELSE model_ext
  IN result(model_space(paper_space(extents_init)))

\* the new model_xmin, model_ymin, model_xmax, model_ymax
compute_modelspace_extents(d) ==
  LET paper_space(ext) ==
        IF mspace = 0 /\ dwg_paper_space_ref(d) # NULLREF
        THEN compute_block_extents(ext, d, dwg_paper_space_ref(d))
        ELSE ext
      model_space(ext) ==
        IF dwg_model_space_ref(d) # NULLREF
        THEN compute_block_extents(ext, d, dwg_model_space_ref(d))
        ELSE ext
      result(ext) ==
        IF ext.initialized # 0
        THEN [xmin |-> ext.xmin, ymin |-> ext.ymin, xmax |-> ext.xmax, ymax |-> ext.ymax]
        ELSE [xmin |-> dwg_model_x_min(d), ymin |-> dwg_model_y_min(d),
              xmax |-> dwg_model_x_max(d), ymax |-> dwg_model_y_max(d)]
  IN result(model_space(paper_space(extents_init)))

\* a page side taken from the extents unchanged
page_side_unchecked(diff) == diff

\* a page side: dx or dy, replaced by 100 when NaN or not positive
page_side(diff) == IF isnan(diff) \/ fle(diff, F(0)) THEN F(100) ELSE diff

\* every "--" of the escaped name becomes "__", leftmost first
RECURSIVE ReplaceDashes(_)
ReplaceDashes(cs) ==
  IF Len(cs) < 2 THEN cs
  ELSE IF cs[1] = "-" /\ cs[2] = "-"
  THEN <<"_", "_">> \o ReplaceDashes(SubSeq(cs, 3, Len(cs)))
  ELSE <<cs[1]>> \o ReplaceDashes(Tail(cs))

\* the group decision with the names compared case-sensitively
IsGroup_case_sensitive(escaped) ==
  /\ escaped.chars # ModelSpaceName.chars
  /\ \/ Len(escaped.chars) < Len(PaperSpaceName.chars)
     \/ SubSeq(escaped.chars, 1, Len(PaperSpaceName.chars)) # PaperSpaceName.chars

\* output_BLOCK_HEADER decides from the escaped name whether to open a group
IsGroup(escaped) ==
  /\ strcasecmp(escaped.chars, ModelSpaceName.chars) # 0
  /\ strncasecmp_prefix(escaped.chars, PaperSpaceName.chars) # 0

ZeroCur == [site |-> "", ref |-> NULLREF, k |-> 0, num |-> 0, is_g |-> 0, i |-> 0]

\* output_SVG going from paper space straight to <defs>
AfterBlock_skips_model(site) ==
  CASE site = "paper_space" -> "defs"
    [] site = "model_space" -> "defs"
    [] OTHER -> "entries"

\* where output_SVG continues when output_BLOCK_HEADER returns to `site`
AfterBlock(site) ==
  CASE site = "paper_space" -> "model_space"
    [] site = "model_space" -> "defs"
    [] OTHER -> "entries"

\* output_BLOCK_HEADER (ref) called from `site`, up to its loop over the
\* owned entities; it returns 0 at once for a reference without a block
EnterBlock(d, ref, site, i) ==
  IF ref.obj = 0 \/ d.object[ref.obj].kind # "BLOCK_HEADER"
  THEN /\ pc' = AfterBlock(site)
       /\ cur' = [ZeroCur EXCEPT !.i = i]
       /\ UNCHANGED <<in_block_definition, block_base, buf, file, handed,
                      stdout, peer>>
  ELSE LET hdr == d.object[ref.obj]
           escaped == [htmlescape(hdr.name) EXCEPT !.chars = ReplaceDashes(@)]
           is_g == ~hdr.name.null /\ IsGroup(escaped)
       IN /\ pc' = "block"
          /\ cur' = [site |-> site, ref |-> ref, k |-> 1, num |-> 0,
                     is_g |-> IF is_g THEN 1 ELSE 0, i |-> i]
          /\ in_block_definition' = IF is_g THEN 1 ELSE in_block_definition
          /\ block_base' = IF is_g THEN <<hdr.base_pt[1], hdr.base_pt[2]>>
                           ELSE block_base
          /\ Emit(IF hdr.name.null THEN <<>>
                  ELSE IF is_g
                  THEN << Fmt([tag |-> "g-open", href |-> ref.absolute_ref,
                               str |-> escaped]) >>
                  ELSE << Fmt([tag |-> "comment-name", str |-> escaped]) >>)

\* output_SVG up to the prologue
OutputSVG(d) ==
  /\ pc = "output_SVG"
  /\ model_ext' = compute_modelspace_extents(d)
  /\ page' = [width |-> page_side(fsub(model_ext'.xmax, model_ext'.xmin)),
              height |-> page_side(fsub(model_ext'.ymax, model_ext'.ymin))]
  /\ Emit(<< Fmt([tag |-> "prologue",
                  args |-> <<F(0), F(0), page'.width, page'.height>>]) >>)
  /\ pc' = "paper_space"
  /\ cur' = ZeroCur
  /\ UNCHANGED <<api, error, dwg, mspace, in_block_definition, block_base,
                 g_svg_writer, caller, env, history,
                 stack, g_svg_writer_user>>

\* paper space emitted whatever the mspace flag says
PaperSpace_always(d) ==
  /\ pc = "paper_space"
  /\ IF dwg_paper_space_ref(d) # NULLREF
     THEN EnterBlock(d, dwg_paper_space_ref(d), "paper_space", 0)
     ELSE /\ pc' = "model_space"
          /\ cur' = ZeroCur
          /\ UNCHANGED <<in_block_definition, block_base, buf, file, handed,
                         stdout, peer>>
  /\ UNCHANGED <<api, error, dwg, mspace, model_ext, page, g_svg_writer, caller,
                 env, history,
                 stack, g_svg_writer_user>>

\* if (!mspace && (ref = dwg_paper_space_ref (dwg))) num = output_BLOCK_HEADER (ref)
PaperSpace(d) ==
  /\ pc = "paper_space"
  /\ IF mspace = 0 /\ dwg_paper_space_ref(d) # NULLREF
     THEN EnterBlock(d, dwg_paper_space_ref(d), "paper_space", 0)
     ELSE /\ pc' = "model_space"
          /\ cur' = ZeroCur
          /\ UNCHANGED <<in_block_definition, block_base, buf, file, handed,
                         stdout, peer>>
  /\ UNCHANGED <<api, error, dwg, mspace, model_ext, page, g_svg_writer, caller,
                 env, history,
                 stack, g_svg_writer_user>>

\* if (!num && (ref = dwg_model_space_ref (dwg))) output_BLOCK_HEADER (ref)
ModelSpace(d) ==
  /\ pc = "model_space"
  /\ IF cur.num = 0 /\ dwg_model_space_ref(d) # NULLREF
     THEN EnterBlock(d, dwg_model_space_ref(d), "model_space", 0)
     ELSE /\ pc' = "defs"
          /\ cur' = ZeroCur
          /\ UNCHANGED <<in_block_definition, block_base, buf, file, handed,
                         stdout, peer>>
  /\ UNCHANGED <<api, error, dwg, mspace, model_ext, page, g_svg_writer, caller,
                 env, history,
                 stack, g_svg_writer_user>>

\* printf ("\t<defs>\n") and the start of the loop over the block table
Defs ==
  /\ pc = "defs"
  /\ Emit(<< Fmt([tag |-> "defs-open"]) >>)
  /\ pc' = "entries"
  /\ cur' = ZeroCur
  /\ UNCHANGED <<api, error, dwg, mspace, in_block_definition, block_base,
                 model_ext, page, g_svg_writer, caller, env, history,
                 stack, g_svg_writer_user>>

\* one turn of the loop: output_BLOCK_HEADER for a non-NULL entry
Entry(d) ==
  /\ pc = "entries"
  /\ cur.i < Len(d.entries)
  /\ IF d.entries[cur.i + 1] # NULLREF
     THEN EnterBlock(d, d.entries[cur.i + 1], "entries", cur.i + 1)
     ELSE /\ pc' = "entries"
          /\ cur' = [ZeroCur EXCEPT !.i = cur.i + 1]
          /\ UNCHANGED <<in_block_definition, block_base, buf, file, handed,
                         stdout, peer>>
  /\ UNCHANGED <<api, error, dwg, mspace, model_ext, page, g_svg_writer, caller,
                 env, history,
                 stack, g_svg_writer_user>>

\* output_BLOCK_HEADER: num += output_object (obj) for the next owned entity
OutputObject(d) ==
  /\ pc = "block"
  /\ cur.k <= Len(owned_entities(d, cur.ref))
  /\ LET Count(out) == /\ Emit(out.printed)
                       /\ cur' = [cur EXCEPT !.k = cur.k + 1, !.num = cur.num + out.num]
     IN Count(output_object(d, owned_entities(d, cur.ref)[cur.k]))
  /\ UNCHANGED <<pc, api, error, dwg, mspace, in_block_definition, block_base,
                 model_ext, page, g_svg_writer, caller, env, history,
                 stack, g_svg_writer_user>>

\* output_BLOCK_HEADER after the loop: close the group, return num
LeaveBlock(d) ==
  /\ pc = "block"
  /\ cur.k > Len(owned_entities(d, cur.ref))
  /\ Emit(IF cur.is_g # 0 THEN << Fmt([tag |-> "g-close"]) >> ELSE <<>>)
  /\ in_block_definition' = IF cur.is_g # 0 THEN 0 ELSE in_block_definition
  /\ pc' = AfterBlock(cur.site)
  /\ cur' = [ZeroCur EXCEPT !.num = IF cur.site = "paper_space" THEN cur.num ELSE 0,
                            !.i = cur.i]
  /\ UNCHANGED <<api, error, dwg, mspace, block_base, model_ext, page,
                 g_svg_writer, caller, env, history,
                 stack, g_svg_writer_user>>

\* the end of output_SVG: </defs>, </svg>
Epilogue(d) ==
  /\ pc = "entries"
  /\ cur.i >= Len(d.entries)
  /\ Emit(<< Fmt([tag |-> "defs-close"]), Fmt([tag |-> "svg-close"]) >>)
  /\ pc' = "return"
  /\ cur' = ZeroCur
  /\ UNCHANGED <<api, error, dwg, mspace, in_block_definition, block_base,
                 model_ext, page, g_svg_writer, caller, env, history,
                 stack, g_svg_writer_user>>

-----------------------------------------------------------------------------
(* The library entry points (src/src/dwg_svg_api.c) *)

\* a call can start when none is running and the run allows one more
CanCall == pc = "idle" /\ env.n < env.max

\* what the caller's svg_out / svg_len variables hold before a call: NULL
\* and 0, or a leftover pointer and length
PriorValues == {[svg_out |-> "NULL", svg_len |-> 0],
                [svg_out |-> "stale", svg_len |-> 7]}

NoCaller == [svg_out |-> "NULL", svg_len |-> 0, out_null |-> FALSE,
             len_null |-> FALSE, rc |-> 0]

\* the first statements of every call: a fresh dwg_svg_buffer, nothing handed
StartCall(name, model, mspace_only) ==
  /\ env' = [env EXCEPT !.n = env.n + 1]
  /\ api' = [name |-> name, model |-> model, mspace_only |-> mspace_only]
  /\ buf' = ZeroBuffer
  /\ file' = <<>>
  /\ handed' = <<>>
  /\ cur' = ZeroCur
  /\ UNCHANGED <<in_block_definition, block_base, model_ext, page, history,
                 stack, stdout, peer>>

\* dwg_svg_render_file that renders only after a parse without any error
RenderFile_strict(mspace_only, writer, err, model, caller_cells, fail_cells) ==
  /\ mspace' = mspace_only
  /\ error' = err
  /\ IF err = 0
     THEN /\ g_svg_writer' = writer
          /\ g_svg_writer_user' = "own"
          /\ dwg' = model
          /\ pc' = "output_SVG"
          /\ caller' = caller_cells
     ELSE /\ g_svg_writer' = "NULL"
          /\ g_svg_writer_user' = "NULL"
          /\ dwg' = 0
          /\ pc' = "idle"
          /\ caller' = [fail_cells EXCEPT !.rc = err]

\* dwg_svg_render_file up to output_SVG, or through its end when the parser
\* fails critically; the caller's variables are then left as fail_cells
RenderFile(mspace_only, writer, err, model, caller_cells, fail_cells) ==
  /\ mspace' = mspace_only
  /\ error' = err
  /\ IF err < DWG_ERR_CRITICAL
     THEN /\ g_svg_writer' = writer
          /\ g_svg_writer_user' = "own"
          /\ dwg' = model
          /\ pc' = "output_SVG"
          /\ caller' = caller_cells
     ELSE /\ g_svg_writer' = "NULL"
          /\ g_svg_writer_user' = "NULL"
          /\ dwg' = 0
          /\ pc' = "idle"
          /\ caller' = [fail_cells EXCEPT !.rc = err]

\* int dwg_to_svg (dwg_path, svg_out, svg_len, mspace_only)
DwgToSvg ==
  /\ CanCall
  /\ \E path_null, out_null, len_null \in BOOLEAN, mspace_only \in {0, 1},
        err \in ParseErrors, model \in env.inputs, prior \in PriorValues :
       LET cells == [svg_out |-> prior.svg_out, svg_len |-> prior.svg_len,
                     out_null |-> out_null, len_null |-> len_null, rc |-> 0]
       IN /\ StartCall("dwg_to_svg",
                       IF path_null \/ out_null \/ len_null \/ err >= DWG_ERR_CRITICAL
                       THEN 0 ELSE model,
                       mspace_only)
          /\ IF path_null \/ out_null \/ len_null
             THEN /\ caller' = [cells EXCEPT !.rc = DWG_ERR_INVALIDDWG]
                  /\ error' = -1
                  /\ UNCHANGED <<pc, dwg, mspace, g_svg_writer,
                                 g_svg_writer_user>>
             ELSE RenderFile(mspace_only, "buffer", err, model, cells,
                             [cells EXCEPT !.svg_out = "NULL", !.svg_len = 0])

\* int dwg_data_to_svg (dwg, svg_out, svg_len, mspace_only)
DwgDataToSvg ==
  /\ CanCall
  /\ \E dwg_null, out_null, len_null \in BOOLEAN, mspace_only \in {0, 1},
        model \in env.inputs, prior \in PriorValues :
       LET cells == [svg_out |-> prior.svg_out, svg_len |-> prior.svg_len,
                     out_null |-> out_null, len_null |-> len_null, rc |-> 0]
       IN /\ StartCall("dwg_data_to_svg",
                       IF dwg_null \/ out_null \/ len_null THEN 0 ELSE model,
                       mspace_only)
          /\ IF dwg_null \/ out_null \/ len_null
             THEN /\ caller' = [cells EXCEPT !.rc = DWG_ERR_INVALIDDWG]
                  /\ error' = -1
                  /\ UNCHANGED <<pc, dwg, mspace, g_svg_writer,
                                 g_svg_writer_user>>
             ELSE \* dwg_svg_render_data up to output_SVG
                  /\ mspace' = mspace_only
                  /\ g_svg_writer' = "buffer"
                  /\ g_svg_writer_user' = "own"
                  /\ dwg' = model
                  /\ pc' = "output_SVG"
                  /\ caller' = cells
                  /\ error' = -1

\* int dwg_write_svg (dwg_path, svg_path, mspace_only)
DwgWriteSvg ==
  /\ CanCall
  /\ \E path_null, svg_path_null, fopen_ok \in BOOLEAN, mspace_only \in {0, 1},
        err \in ParseErrors, model \in env.inputs :
       /\ StartCall("dwg_write_svg",
                    IF path_null \/ svg_path_null \/ ~fopen_ok \/ err >= DWG_ERR_CRITICAL
                    THEN 0 ELSE model,
                    mspace_only)
       /\ IF path_null \/ svg_path_null
          THEN /\ caller' = [NoCaller EXCEPT !.rc = DWG_ERR_INVALIDDWG]
               /\ error' = -1
               /\ UNCHANGED <<pc, dwg, mspace, g_svg_writer,
                              g_svg_writer_user>>
          ELSE IF ~fopen_ok
          THEN /\ caller' = [NoCaller EXCEPT !.rc = DWG_ERR_IOERROR]
               /\ error' = -1
               /\ UNCHANGED <<pc, dwg, mspace, g_svg_writer,
                              g_svg_writer_user>>
          ELSE RenderFile(mspace_only, "file", err, model, NoCaller, NoCaller)

\* a finished rendering joins the history
Rendered == Append(history, [model |-> api.model, mspace_only |-> api.mspace_only,
                             out |-> handed, ext |-> model_ext, page |-> page])

\* the rest of dwg_to_svg / dwg_data_to_svg once the renderer has returned 0;
\* malloc_ok: whether the malloc (1) for an empty buffer succeeds
ReturnString ==
  /\ pc = "return"
  /\ api.name \in {"dwg_to_svg", "dwg_data_to_svg"}
  /\ g_svg_writer' = "NULL"
  /\ g_svg_writer_user' = "NULL"
  /\ dwg' = IF api.name = "dwg_to_svg" THEN 0 ELSE dwg
  /\ \E malloc_ok \in (IF env.oom THEN BOOLEAN ELSE {TRUE}) :
       IF ~buf.alloc /\ ~malloc_ok
       THEN /\ caller' = [caller EXCEPT !.rc = DWG_ERR_OUTOFMEM]
            /\ buf' = buf
       ELSE /\ buf' = IF buf.alloc THEN buf
                      ELSE [buf EXCEPT !.alloc = TRUE, !.nul = 0]
            /\ caller' = [caller EXCEPT !.svg_out = "data", !.svg_len = buf.len,
                                        !.rc = 0]
  /\ history' = Rendered
  /\ pc' = "idle"
  /\ UNCHANGED <<api, error, mspace, in_block_definition, block_base, model_ext,
                 page, file, handed, cur, env,
                 stack, stdout, peer>>

\* the rest of dwg_write_svg: fflush, fclose, return rc
ReturnFile ==
  /\ pc = "return"
  /\ api.name = "dwg_write_svg"
  /\ g_svg_writer' = "NULL"
  /\ g_svg_writer_user' = "NULL"
  /\ dwg' = 0
  /\ caller' = [caller EXCEPT !.rc = 0]
  /\ history' = Rendered
  /\ pc' = "idle"
  /\ UNCHANGED <<api, error, mspace, in_block_definition, block_base, model_ext,
                 page, buf, file, handed, cur, env,
                 stack, stdout, peer>>

\* void dwg_free_svg (svg): the caller releases the buffer it was given
DwgFreeSvg ==
  /\ pc = "idle"
  /\ caller.svg_out = "data"
  /\ caller' = [caller EXCEPT !.svg_out = "freed"]
  /\ buf' = ZeroBuffer
  /\ UNCHANGED <<pc, api, error, dwg, mspace, in_block_definition, block_base,
                 model_ext, page, g_svg_writer, file, handed, cur, env, history,
                 stack, g_svg_writer_user, stdout, peer>>

-----------------------------------------------------------------------------
(* The extents pass of output_SVG, one call frame at a time *)

\* the entity at index i makes compute_entity_extents call
\* compute_block_extents: a visible INSERT that passes the checks of its case
Descends(d, i) ==
  /\ d.object[i].kind = "INSERT"
  /\ ~entity_invisible(d, d.object[i])
  /\ insert_descends(d, d.object[i])

\* the frame of compute_modelspace_extents: its local ext and the statement
\* it is at
SpacesFrame(at, ext) == [fn |-> "compute_modelspace_extents", at |-> at, ext |-> ext]

\* a frame of compute_block_extents (ext, ref): the Extents its ext points
\* to, its ref, the position of its loop
BlockFrame(ref, ext) == [fn |-> "compute_block_extents", ref |-> ref, k |-> 1, ext |-> ext]

Top == stack[Len(stack)]
Push(frame) == Append(stack, frame)
Pop == SubSeq(stack, 1, Len(stack) - 1)

\* the C stack still has room for one more frame
StackHasRoom == Len(stack) < MaxDepth

\* compute_block_extents returns at once for a reference without a block
HasBlock(d, ref) == ref # NULLREF /\ ref.obj # 0 /\ d.object[ref.obj].kind = "BLOCK_HEADER"

\* the end of compute_modelspace_extents: the computed extents, or the
\* header's when no geometry was found
modelspace_result(ext, d) ==
  IF ext.initialized # 0
  THEN [xmin |-> ext.xmin, ymin |-> ext.ymin, xmax |-> ext.xmax, ymax |-> ext.ymax]
  ELSE [xmin |-> dwg_model_x_min(d), ymin |-> dwg_model_y_min(d),
        xmax |-> dwg_model_x_max(d), ymax |-> dwg_model_y_max(d)]

\* output_SVG calls compute_modelspace_extents: extents_init (&ext)
ExtentsBegin(d) ==
  /\ pc = "output_SVG"
  /\ pc' = "extents"
  /\ stack' = << SpacesFrame("paper_space", extents_init) >>
  /\ UNCHANGED <<api, error, dwg, mspace, in_block_definition, block_base,
                 model_ext, page, g_svg_writer, g_svg_writer_user, buf, file,
                 handed, cur, caller, env, history, stdout, peer>>

\* compute_modelspace_extents: compute_block_extents (&ext, ref) for paper
\* space (when mspace is 0) and then for model space, each when its ref is set
ExtentsSpace(d) ==
  /\ pc = "extents"
  /\ Top.fn = "compute_modelspace_extents"
  /\ Top.at \in {"paper_space", "model_space"}
  /\ LET ref == IF Top.at = "model_space" THEN dwg_model_space_ref(d)
                ELSE IF mspace = 0 THEN dwg_paper_space_ref(d)
                ELSE NULLREF
         after == SpacesFrame(IF Top.at = "paper_space" THEN "model_space" ELSE "done",
                              Top.ext)
     IN stack' = IF HasBlock(d, ref)
                 THEN << after, BlockFrame(ref, Top.ext) >>
                 ELSE << after >>
  /\ UNCHANGED <<pc, api, error, dwg, mspace, in_block_definition, block_base,
                 model_ext, page, g_svg_writer, g_svg_writer_user, buf, file,
                 handed, cur, caller, env, history, stdout, peer>>

\* compute_block_extents: compute_entity_extents (ext, obj) for an entity that
\* is not an INSERT descending into a block
ExtentsEntity(d) ==
  /\ pc = "extents"
  /\ Top.fn = "compute_block_extents"
  /\ Top.k <= Len(owned_entities(d, Top.ref))
  /\ ~Descends(d, owned_entities(d, Top.ref)[Top.k])
  /\ stack' = Append(Pop, [Top EXCEPT
                 !.ext = compute_entity_extents(Top.ext, d, owned_entities(d, Top.ref)[Top.k]),
                 !.k = Top.k + 1])
  /\ UNCHANGED <<pc, api, error, dwg, mspace, in_block_definition, block_base,
                 model_ext, page, g_svg_writer, g_svg_writer_user, buf, file,
                 handed, cur, caller, env, history, stdout, peer>>

\* case DWG_TYPE_INSERT: extents_init (&block_ext);
\* compute_block_extents (&block_ext, insert->block_header)
ExtentsInsert(d) ==
  /\ pc = "extents"
  /\ Top.fn = "compute_block_extents"
  /\ Top.k <= Len(owned_entities(d, Top.ref))
  /\ Descends(d, owned_entities(d, Top.ref)[Top.k])
  /\ StackHasRoom
  /\ stack' = Push(BlockFrame(d.object[owned_entities(d, Top.ref)[Top.k]].block_header,
                              extents_init))
  /\ UNCHANGED <<pc, api, error, dwg, mspace, in_block_definition, block_base,
                 model_ext, page, g_svg_writer, g_svg_writer_user, buf, file,
                 handed, cur, caller, env, history, stdout, peer>>

\* the loop of the running compute_block_extents has no entity left
LoopDone(d) ==
  /\ pc = "extents"
  /\ Top.fn = "compute_block_extents"
  /\ Top.k > Len(owned_entities(d, Top.ref))

\* compute_block_extents returns: to compute_modelspace_extents, whose ext it
\* has filled, or to the INSERT case, which adds the transformed block_ext
ExtentsReturn(d) ==
  /\ LoopDone(d)
  /\ LET to == stack[Len(stack) - 1]
     IN stack' = Append(SubSeq(stack, 1, Len(stack) - 2),
                   IF to.fn = "compute_modelspace_extents"
                   THEN [to EXCEPT !.ext = Top.ext]
                   ELSE [to EXCEPT
                          !.ext = insert_extents(to.ext, d,
                                    d.object[owned_entities(d, to.ref)[to.k]], Top.ext),
                          !.k = to.k + 1])
  /\ UNCHANGED <<pc, api, error, dwg, mspace, in_block_definition, block_base,
                 model_ext, page, g_svg_writer, g_svg_writer_user, buf, file,
                 handed, cur, caller, env, history, stdout, peer>>

\* the end of compute_modelspace_extents and output_SVG up to the prologue
ExtentsEnd(d) ==
  /\ pc = "extents"
  /\ Top.fn = "compute_modelspace_extents"
  /\ Top.at = "done"
  /\ stack' = <<>>
  /\ model_ext' = modelspace_result(Top.ext, d)
  /\ page' = [width |-> page_side(fsub(model_ext'.xmax, model_ext'.xmin)),
              height |-> page_side(fsub(model_ext'.ymax, model_ext'.ymin))]
  /\ Emit(<< Fmt([tag |-> "prologue",
                  args |-> <<F(0), F(0), page'.width, page'.height>>]) >>)
  /\ pc' = "paper_space"
  /\ cur' = ZeroCur
  /\ UNCHANGED <<api, error, dwg, mspace, in_block_definition, block_base,
                 g_svg_writer, g_svg_writer_user, caller, env, history>>

\* the locals and the sink of a thread that has not called yet
Waiting ==
  [pc |-> "idle", api |-> [name |-> "none", model |-> 0, mspace_only |-> 0],
   error |-> -1, dwg |-> 0, buf |-> ZeroBuffer, file |-> <<>>, handed |-> <<>>,
   cur |-> ZeroCur, caller |-> NoCaller]

\* the scheduler takes the processor from the running thread and gives it to
\* the other one: positions, locals and sinks change places, the file-scope
\* statics of dwg2SVG.c and dwg_svg_api.c stay as they are
Switch ==
  /\ env.sw < MaxSwitches
  /\ env' = [env EXCEPT !.sw = env.sw + 1]
  /\ peer' = [pc |-> pc, api |-> api, error |-> error, dwg |-> dwg, buf |-> buf,
              file |-> file, handed |-> handed, cur |-> cur, caller |-> caller]
  /\ pc' = peer.pc
  /\ api' = peer.api
  /\ error' = peer.error
  /\ dwg' = peer.dwg
  /\ buf' = peer.buf
  /\ file' = peer.file
  /\ handed' = peer.handed
  /\ cur' = peer.cur
  /\ caller' = peer.caller
  /\ g_svg_writer_user' = CASE g_svg_writer_user = "own" -> "peer"
                             [] g_svg_writer_user = "peer" -> "own"
                             [] OTHER -> "NULL"
  /\ UNCHANGED <<mspace, in_block_definition, block_base, model_ext, page,
                 g_svg_writer, history, stack, stdout>>

-----------------------------------------------------------------------------
(* Specifications *)

InitGlobals ==
  /\ pc = "idle"
  /\ api = [name |-> "none", model |-> 0, mspace_only |-> 0]
  /\ error = -1
  /\ dwg = 0
  /\ mspace = 0
  /\ in_block_definition = 0
  /\ block_base = <<F(0), F(0)>>
  /\ model_ext = [xmin |-> F(0), ymin |-> F(0), xmax |-> F(0), ymax |-> F(0)]
  /\ page = [width |-> F(0), height |-> F(0)]
  /\ g_svg_writer = "NULL"
  /\ buf = ZeroBuffer
  /\ file = <<>>
  /\ handed = <<>>
  /\ cur = ZeroCur
  /\ caller = NoCaller
  /\ history = <<>>
  /\ stack = <<>>
  /\ g_svg_writer_user = "NULL"
  /\ stdout = <<>>
  /\ peer = Waiting

\* one call on any drawing, allocations free to fail
Init ==
  /\ InitGlobals
  /\ env = [n |-> 0, max |-> MaxCalls, oom |-> TRUE, inputs |-> 1..Len(DWGS),
            sw |-> 0]

\* several calls in a row on a few drawings
InitReplay ==
  /\ InitGlobals
  /\ env = [n |-> 0, max |-> ReplayCalls, oom |-> FALSE, inputs |-> ReplayInputs,
            sw |-> 0]

Next ==
  \/ DwgToSvg
  \/ DwgDataToSvg
  \/ DwgWriteSvg
  \/ DwgFreeSvg
  \/ OutputSVG(D)
  \/ PaperSpace(D)
  \/ ModelSpace(D)
  \/ Defs
  \/ Entry(D)
  \/ OutputObject(D)
  \/ LeaveBlock(D)
  \/ Epilogue(D)
  \/ ReturnString
  \/ ReturnFile

Spec == Init /\ [][Next]_vars

SpecReplay == InitReplay /\ [][Next]_vars

\* two threads, one call of dwg_data_to_svg each, on two drawings
InitThreads ==
  /\ InitGlobals
  /\ env = [n |-> 0, max |-> ThreadCalls, oom |-> FALSE, inputs |-> ThreadInputs,
            sw |-> 0]

NextThreads ==
  \/ DwgDataToSvg
  \/ DwgFreeSvg
  \/ OutputSVG(D)
  \/ PaperSpace(D)
  \/ ModelSpace(D)
  \/ Defs
  \/ Entry(D)
  \/ OutputObject(D)
  \/ LeaveBlock(D)
  \/ Epilogue(D)
  \/ ReturnString
  \/ Switch

SpecThreads == InitThreads /\ [][NextThreads]_vars

\* the drawing of SpecExtents
N == NDWGS[dwg]

\* one call of dwg_data_to_svg on a drawing with nested blocks
InitExtents ==
  /\ InitGlobals
  /\ env = [n |-> 0, max |-> MaxCalls, oom |-> FALSE, inputs |-> 1..Len(NDWGS),
            sw |-> 0]

NextExtents ==
  \/ DwgDataToSvg
  \/ DwgFreeSvg
  \/ ExtentsBegin(N)
  \/ ExtentsSpace(N)
  \/ ExtentsEntity(N)
  \/ ExtentsInsert(N)
  \/ ExtentsReturn(N)
  \/ ExtentsEnd(N)
  \/ PaperSpace(N)
  \/ ModelSpace(N)
  \/ Defs
  \/ Entry(N)
  \/ OutputObject(N)
  \/ LeaveBlock(N)
  \/ Epilogue(N)
  \/ ReturnString

\* the steps of a running call
CallStep(d) ==
  \/ ExtentsBegin(d)
  \/ ExtentsSpace(d)
  \/ ExtentsEntity(d)
  \/ ExtentsInsert(d)
  \/ ExtentsReturn(d)
  \/ ExtentsEnd(d)
  \/ PaperSpace(d)
  \/ ModelSpace(d)
  \/ Defs
  \/ Entry(d)
  \/ OutputObject(d)
  \/ LeaveBlock(d)
  \/ Epilogue(d)
  \/ ReturnString

\* the INSERT case is about to call compute_block_extents and the stack has
\* no room for its frame
StackFull(d) ==
  /\ pc = "extents"
  /\ Top.fn = "compute_block_extents"
  /\ Top.k <= Len(owned_entities(d, Top.ref))
  /\ Descends(d, owned_entities(d, Top.ref)[Top.k])
  /\ ~StackHasRoom

\* a call is running and has a step to take: CallStep is enabled
CanStep(d) == pc # "idle" /\ ~StackFull(d)

\* weak fairness of CallStep, its enabling condition written out: the thread
\* of a running call is never held back, a call that can take a step takes one
Progress == []<>(~CanStep(N)) \/ []<><<CallStep(N)>>_vars

SpecExtents ==
  InitExtents /\ [][NextExtents]_vars /\ Progress

\* the drawing of SpecGallery
G == GDWGS[dwg]

\* one call of dwg_data_to_svg on a drawing of the gallery
InitGallery ==
  /\ InitGlobals
  /\ env = [n |-> 0, max |-> MaxCalls, oom |-> FALSE, inputs |-> 1..Len(GDWGS),
            sw |-> 0]

NextGallery ==
  \/ DwgDataToSvg
  \/ DwgFreeSvg
  \/ OutputSVG(G)
  \/ PaperSpace(G)
  \/ ModelSpace(G)
  \/ Defs
  \/ Entry(G)
  \/ OutputObject(G)
  \/ LeaveBlock(G)
  \/ Epilogue(G)
  \/ ReturnString

SpecGallery == InitGallery /\ [][NextGallery]_vars

-----------------------------------------------------------------------------
(* Properties *)

\* the string-returning entry points
StringApis == {"dwg_to_svg", "dwg_data_to_svg"}

\* a call of a string-returning entry point has returned, its pointers non-null
StringCallReturned ==
  pc = "idle" /\ api.name \in StringApis /\ ~caller.out_null /\ ~caller.len_null

\* C1: whenever dwg_to_svg or dwg_data_to_svg returns a non-zero code and the
\* svg_out / svg_len pointers are non-null, *svg_out is NULL and *svg_len is 0
\* on return, on every failure path.
C1_FailureLeavesNull ==
  (StringCallReturned /\ caller.rc # 0)
  => (caller.svg_out = "NULL" /\ caller.svg_len = 0)

\* C2: whenever dwg_to_svg or dwg_data_to_svg returns 0, *svg_out is a buffer,
\* the byte at index *svg_len is the NUL terminator and the first *svg_len
\* bytes are the in-order concatenation of every chunk handed to the sink.
C2_BufferIsConcatenation ==
  (StringCallReturned /\ caller.rc = 0 /\ caller.svg_out = "data")
  => /\ buf.alloc
     /\ buf.nul = caller.svg_len
     /\ buf.len = caller.svg_len
     /\ buf.chunks = SelectSeq(handed, LAMBDA c : c.len # 0)

\* a call of a file-based entry point has returned after running the parser
FileCallReturned ==
  pc = "idle" /\ api.name \in {"dwg_to_svg", "dwg_write_svg"} /\ error # -1

\* the writer was handed the whole document, prologue to </svg>
WholeDocument ==
  /\ handed # <<>>
  /\ handed[1].tag = "prologue"
  /\ handed[Len(handed)].tag = "svg-close"
  /\ api.name = "dwg_write_svg" => file = handed

\* C3 as stated: for dwg_to_svg and dwg_write_svg the writer receives bytes
\* iff the parser's error is below DWG_ERR_CRITICAL; then the whole document
\* is delivered and the call returns 0; otherwise the writer is never invoked
\* and the parser's error code is returned.
C3_Original ==
  FileCallReturned
  => IF error < DWG_ERR_CRITICAL
     THEN WholeDocument /\ caller.rc = 0
     ELSE handed = <<>> /\ caller.rc = error

\* C3 (amended): as C3, except that dwg_to_svg returns DWG_ERR_OUTOFMEM after
\* a complete rendering when its buffer is still unallocated and the final
\* malloc (1) fails.
C3_WriterGetsDocumentIffNotCritical ==
  FileCallReturned
  => IF error < DWG_ERR_CRITICAL
     THEN /\ WholeDocument
          /\ \/ caller.rc = 0
             \/ /\ api.name = "dwg_to_svg"
                /\ ~buf.alloc
                /\ caller.rc = DWG_ERR_OUTOFMEM
     ELSE handed = <<>> /\ caller.rc = error

\* a non-critical parser error was swallowed by dwg_write_svg
C3_Witness ==
  /\ FileCallReturned
  /\ api.name = "dwg_write_svg"
  /\ error = DWG_ERR_VALUEOUTOFBOUNDS
  /\ caller.rc = 0
  /\ Len(file) > 3

\* C4: rendering is a function of (model, mspace_only) only: any two
\* finished renderings of the same model with the same flag handed the same
\* chunks to the sink and computed the same extents and page, whatever calls
\* ran in between and whatever they left in the file-scope variables.
C4_RenderingIsAFunction ==
  \A a, b \in 1..Len(history) :
    (history[a].model = history[b].model
       /\ history[a].mspace_only = history[b].mspace_only)
    => history[a] = history[b]

\* the empty drawing rendered, another drawing rendered with the other flag,
\* the empty drawing rendered again
C4_Witness ==
  /\ Len(history) = 3
  /\ history[1].model = 1 /\ history[3].model = 1
  /\ history[1].mspace_only = history[3].mspace_only
  /\ history[2].model = 2
  /\ history[2].mspace_only # history[1].mspace_only
  /\ history[2].ext # history[1].ext

\* dx / dy is unusable as a page side
C5_Unusable(diff) == isnan(diff) \/ diff[1] = 2 \/ (diff[1] = 0 /\ diff[2] <= 0)

\* C5: the page_width and page_height written into the viewBox are strictly
\* positive and not NaN: a side whose extent difference is non-positive or
\* NaN is replaced by 100, independently of the other side.
C5_PagePositive ==
  handed # <<>>
  => LET w == handed[1].args[3]
         h == handed[1].args[4]
         dx == fsub(model_ext.xmax, model_ext.xmin)
         dy == fsub(model_ext.ymax, model_ext.ymin)
     IN /\ handed[1].tag = "prologue"
        /\ ~isnan(w) /\ fgt(w, F(0))
        /\ ~isnan(h) /\ fgt(h, F(0))
        /\ w = (IF C5_Unusable(dx) THEN F(100) ELSE dx)
        /\ h = (IF C5_Unusable(dy) THEN F(100) ELSE dy)
        /\ page = [width |-> w, height |-> h]

\* a horizontal line: the height is replaced, the width is not
C5_Witness ==
  /\ handed # <<>>
  /\ fsub(model_ext.ymax, model_ext.ymin) = F(0)
  /\ handed[1].args[3] = F(5)
  /\ handed[1].args[4] = F(100)

\* the kinds output_object dispatches to an emitter
DispatchedKinds == {"IMAGE", "INSERT", "LINE", "CIRCLE", "TEXT", "ATTDEF", "ARC",
                    "POINT", "ELLIPSE", "SOLID", "3DFACE", "POLYLINE_2D",
                    "LWPOLYLINE", "RAY", "XLINE", "HATCH"}

\* the step is one call of output_object from output_BLOCK_HEADER
OutputObjectStep == pc = "block" /\ pc' = "block" /\ cur'.k = cur.k + 1

\* the index of the entity that call is about, and what it printed
StepIndex == owned_entities(D, cur.ref)[cur.k]
StepPrinted == SubSeq(handed', Len(handed) + 1, Len(handed'))

\* invisible bit set, or the layer reference resolves to a LAYER off or frozen
C6_Hidden(d, e) ==
  \/ e.invisible # 0
  \/ /\ e.layer.obj \in 1..Len(d.object)
     /\ d.object[e.layer.obj].kind = "LAYER"
     /\ (d.object[e.layer.obj].off # 0 \/ d.object[e.layer.obj].frozen # 0)

\* the drawing without its hidden entities of a dispatched kind
C6_Stripped(d) ==
  [d EXCEPT !.object =
     [o \in 1..Len(d.object) |->
        IF d.object[o].kind = "BLOCK_HEADER"
        THEN [d.object[o] EXCEPT !.owned =
                SelectSeq(@, LAMBDA i : ~(d.object[i].kind \in DispatchedKinds
                                           /\ C6_Hidden(d, d.object[i])))]
        ELSE d.object[o]]]

\* C6: an entity of a dispatched kind whose invisible bit is set or whose
\* layer is off or frozen produces no output fragment (render pass) and adds
\* no point to the extents (extents pass: the extents are those of the
\* drawing without such entities).
C6_HiddenEntitiesLeaveNoTrace ==
  /\ [][(OutputObjectStep /\ D.object[StepIndex].kind \in DispatchedKinds
                          /\ C6_Hidden(D, D.object[StepIndex]))
        => handed' = handed]_vars
  /\ [](pc \in {"paper_space", "model_space", "block", "defs", "entries", "return"}
        => model_ext = compute_modelspace_extents(C6_Stripped(D)))

\* output_object has just returned from the HATCH on the frozen layer that
\* opens an inserted block: nothing follows the <g> of the block, and the
\* extents are those of the line behind the HATCH
C6_Witness ==
  /\ pc = "block"
  /\ cur.ref = Ref(7)
  /\ cur.k = 2
  /\ LET e == D.object[owned_entities(D, cur.ref)[1]]
     IN e.kind = "HATCH" /\ e.layer = Ref(3) /\ e.invisible = 0
  /\ handed[Len(handed)].tag = "g-open"
  /\ model_ext.xmax = F(9)

\* C7: no number emitted as a coordinate, radius, size or transform
\* parameter is NaN or infinite.
C7_EmittedNumbersFinite ==
  \A k \in 1..Len(handed) :
    \A j \in 1..Len(handed[k].args) : isfinite(handed[k].args[j])

\* how many of the chunks open an element with this id
RECURSIVE Elements(_, _)
Elements(chunks, id) ==
  IF chunks = <<>> THEN 0
  ELSE (IF chunks[1].tag # "comment" /\ chunks[1].id = id THEN 1 ELSE 0)
       + Elements(Tail(chunks), id)

\* how many of the references resolve to this block header
RECURSIVE Listed(_, _, _)
Listed(d, refs, b) ==
  IF refs = <<>> THEN 0
  ELSE (IF refs[1].obj = b /\ d.object[b].kind = "BLOCK_HEADER" THEN 1 ELSE 0)
       + Listed(d, Tail(refs), b)

IsBlock(d, ref) == ref.obj # 0 /\ d.object[ref.obj].kind = "BLOCK_HEADER"

\* how often one call of output_SVG emits block b: as paper space unless
\* mspace is set, as model space unless paper space counted an entity, and
\* once for each time the block control table lists it
Emissions(d, b) ==
  LET ps == dwg_paper_space_ref(d)
      ms == dwg_model_space_ref(d)
      paper == mspace = 0 /\ ps # NULLREF /\ IsBlock(d, ps)
      counted == paper /\ \E k \in 1..Len(owned_entities(d, ps)) :
                            d.object[owned_entities(d, ps)[k]].kind \in DispatchedKinds
  IN (IF paper /\ ps.obj = b THEN 1 ELSE 0)
     + (IF ~counted /\ ms # NULLREF /\ IsBlock(d, ms) /\ ms.obj = b THEN 1 ELSE 0)
     + Listed(d, d.entries, b)

NoNaN(pt) == \A k \in 1..Len(pt) : ~isnan(pt[k])

\* a visible entity of a dispatched kind with no NaN attribute and with the
\* parts its element is made of: a text, a vertex, a boundary path, a block,
\* and for XLINE / RAY a crossing of the clip box
Renderable(d, i) ==
  LET e == d.object[i] IN
  /\ e.kind \in DispatchedKinds
  /\ ~C6_Hidden(d, e)
  /\ CASE e.kind = "LINE" -> NoNaN(e.start) /\ NoNaN(e.end) /\ NoNaN(e.extrusion)
       [] e.kind \in {"XLINE", "RAY"} ->
            /\ NoNaN(e.point) /\ NoNaN(e.vector)
            /\ ~xline_clip(e).miss_xy /\ ~xline_clip(e).miss_z
       [] e.kind = "CIRCLE" -> NoNaN(e.center) /\ NoNaN(e.extrusion) /\ ~isnan(e.radius)
       [] e.kind = "ARC" ->
            /\ NoNaN(e.center) /\ NoNaN(e.extrusion) /\ ~isnan(e.radius)
            /\ ~isnan(e.start_angle) /\ ~isnan(e.end_angle)
       [] e.kind = "POINT" -> NoNaN(<<e.x, e.y, e.z>>) /\ NoNaN(e.extrusion)
       [] e.kind = "ELLIPSE" ->
            /\ NoNaN(e.center) /\ NoNaN(e.extrusion) /\ NoNaN(e.sm_axis)
            /\ ~isnan(e.axis_ratio) /\ ~isnan(e.start_angle) /\ ~isnan(e.end_angle)
       [] e.kind = "SOLID" ->
            /\ NoNaN(e.corner1) /\ NoNaN(e.corner2) /\ NoNaN(e.corner3)
            /\ NoNaN(e.corner4) /\ NoNaN(e.extrusion)
       [] e.kind = "3DFACE" ->
            NoNaN(e.corner1) /\ NoNaN(e.corner2) /\ NoNaN(e.corner3) /\ NoNaN(e.corner4)
       [] e.kind = "TEXT" ->
            /\ ~e.text_value.null /\ NoNaN(e.ins_pt) /\ NoNaN(e.extrusion)
            /\ ~isnan(e.height)
       [] e.kind = "ATTDEF" ->
            /\ ~e.tag.null /\ NoNaN(e.ins_pt) /\ NoNaN(e.extrusion)
            /\ ~isnan(e.height) /\ ~isnan(e.rotation)
       [] e.kind = "POLYLINE_2D" -> e.num_owned # 0 /\ NoNaN(e.extrusion)
       [] e.kind = "LWPOLYLINE" ->
            /\ e.points # <<>> /\ NoNaN(e.extrusion)
            /\ \A k \in 1..Len(e.points) : NoNaN(e.points[k])
       [] e.kind = "HATCH" -> e.num_paths # 0
       [] e.kind = "INSERT" ->
            /\ e.block_header.absolute_ref # 0 /\ IsBlock(d, e.block_header)
            /\ NoNaN(e.ins_pt) /\ NoNaN(e.extrusion) /\ NoNaN(e.scale)
            /\ ~isnan(e.rotation)
       [] e.kind = "IMAGE" ->
            /\ NoNaN(e.pt0) /\ NoNaN(e.uvec) /\ NoNaN(e.vvec) /\ NoNaN(e.image_size)

\* the block headers of the drawing, and the entities one owns
Blocks(d) == {b \in 1..Len(d.object) : d.object[b].kind = "BLOCK_HEADER"}
Owned(d, b) == {d.object[b].owned[k] : k \in 1..Len(d.object[b].owned)}

UseTags == {"use-matrix", "use-rotate"}

\* how many <g id="symbol-<abs_ref>"> the chunks open
RECURSIVE Symbols(_, _)
Symbols(chunks, abs_ref) ==
  IF chunks = <<>> THEN 0
  ELSE (IF chunks[1].tag = "g-open" /\ chunks[1].href = abs_ref THEN 1 ELSE 0)
       + Symbols(Tail(chunks), abs_ref)

\* C9: in the output of one rendering call every emitted INSERT produces
\* exactly one <use>, and for every absolute_ref a <use> names there is
\* exactly one <g id="symbol-<abs_ref>">.
C9_OneSymbolPerUse ==
  pc = "return"
  => \A k \in 1..Len(handed) :
       /\ (handed[k].tag = "comment" /\ handed[k].txt = <<"insert">>)
          => (k < Len(handed) /\ handed[k + 1].tag \in UseTags
              /\ handed[k + 1].id = handed[k].id)
       /\ handed[k].tag \in UseTags => Symbols(handed, handed[k].href) = 1

\* C10: for every LINE emitted while not in block-definition mode, with WCS
\* start (x1,y1) and end (x2,y2), the path 'M a,b L c,d' has
\* a = x1 - xmin, b = page_height - (y1 - ymin), c = x2 - xmin,
\* d = page_height - (y2 - ymin), with the xmin, ymin and page_height of the
\* extents pass of the same call.
C10_LinePathIsShiftedAndFlipped ==
  [][(OutputObjectStep /\ in_block_definition = 0
        /\ D.object[StepIndex].kind = "LINE" /\ StepPrinted # <<>>)
     => LET line == D.object[StepIndex]
            start == transform_OCS(line.start, line.extrusion)
            end == transform_OCS(line.end, line.extrusion)
        IN /\ Len(StepPrinted) = 3
           /\ StepPrinted[2].tag = "path"
           /\ StepPrinted[2].id = <<StepIndex>>
           /\ StepPrinted[2].args =
                << fsub(start[1], model_ext.xmin),
                   fsub(handed[1].args[4], fsub(start[2], model_ext.ymin)),
                   fsub(end[1], model_ext.xmin),
                   fsub(handed[1].args[4], fsub(end[2], model_ext.ymin)) >>
    ]_vars

\* the line (2,3)-(7,5) of a model space with extents (2,2)-(7,5), emitted
\* outside a block definition
C10_Witness ==
  /\ pc = "block"
  /\ in_block_definition = 0
  /\ model_ext.xmin = F(2) /\ model_ext.ymin = F(2) /\ page.height = F(3)
  /\ handed[Len(handed) - 1].tag = "path"
  /\ handed[Len(handed) - 1].args = <<F(0), F(2), F(5), F(0)>>

-----------------------------------------------------------------------------
(* C11: raw coordinates inside a block definition *)

\* the translation a <use> would carry with no viewport term in it
RawUseTranslation(d, insert) ==
  LET ins_pt == transform_OCS(insert.ins_pt, insert.extrusion)
      base_pt == d.object[insert.block_header.obj].base_pt
  IN << fsub(ins_pt[1], fmul(insert.scale[1], base_pt[1])),
        fadd(fsub(F(0), ins_pt[2]), fmul(insert.scale[2], base_pt[2])) >>

\* a chunk printed for entity e holds e's raw coordinates
RawChunk(d, e, c) ==
  CASE e.kind = "LINE" /\ c.tag = "path" ->
         c.args = << transform_OCS(e.start, e.extrusion)[1],
                     transform_OCS(e.start, e.extrusion)[2],
                     transform_OCS(e.end, e.extrusion)[1],
                     transform_OCS(e.end, e.extrusion)[2] >>
    [] e.kind = "CIRCLE" /\ c.tag = "circle" ->
         c.args = << transform_OCS(e.center, e.extrusion)[1],
                     transform_OCS(e.center, e.extrusion)[2], e.radius >>
    [] e.kind = "IMAGE" /\ c.tag = "image" ->
         /\ c.args[7] = fadd(e.pt0[1], fmul(e.vvec[1], e.image_size[2]))
         /\ c.args[8] = fadd(e.pt0[2], fmul(e.vvec[2], e.image_size[2]))
    [] e.kind = "INSERT" /\ c.tag = "use-matrix" ->
         <<c.args[3], c.args[4]>> = RawUseTranslation(d, e)
    [] e.kind = "INSERT" /\ c.tag = "use-rotate" ->
         <<c.args[1], c.args[2]>> = RawUseTranslation(d, e)
    [] OTHER -> TRUE

\* C11: while a block definition is being emitted, every coordinate and every
\* translation term an emitter prints (LINE, CIRCLE, IMAGE, nested INSERT) is
\* the entity's raw coordinate: no xmin/ymin, no page_height, no Y flip.
C11_RawInsideSymbol ==
  [][(OutputObjectStep /\ in_block_definition # 0)
     => \A k \in 1..Len(StepPrinted) :
          RawChunk(D, D.object[StepIndex], StepPrinted[k])
    ]_vars

-----------------------------------------------------------------------------
(* C12: the <use> transform against the flattened block *)

\* the SVG transform of a printed <use>, applied to the point p: matrix(a 0 0 d
\* e f), or translate(tx ty) rotate(deg) scale(sx sy) applied right to left
ApplyUse(c, p) ==
  IF c.tag = "use-matrix"
  THEN << fadd(fmul(c.args[1], p[1]), c.args[3]),
          fadd(fmul(c.args[2], p[2]), c.args[4]) >>
  ELSE LET q == fdiv(c.args[3], F(90))
           x == fmul(c.args[4], p[1])
           y == fmul(c.args[5], p[2])
       IN << fadd(fsub(fmul(x, cos(q)), fmul(y, sin(q))), c.args[1]),
             fadd(fadd(fmul(x, sin(q)), fmul(y, cos(q))), c.args[2]) >>

\* (S . (p - B) rotated by R) + I
Flattened(insert, base_pt, p) ==
  LET ins_pt == transform_OCS(insert.ins_pt, insert.extrusion)
      lx == fmul(insert.scale[1], fsub(p[1], base_pt[1]))
      ly == fmul(insert.scale[2], fsub(p[2], base_pt[2]))
  IN << fadd(fsub(fmul(lx, cos(insert.rotation)), fmul(ly, sin(insert.rotation))),
             ins_pt[1]),
        fadd(fadd(fmul(lx, sin(insert.rotation)), fmul(ly, cos(insert.rotation))),
             ins_pt[2]) >>

\* (X - xmin, page_height - (Y - ymin))
ViewportImage(pt) ==
  << fsub(pt[1], model_ext.xmin), fsub(page.height, fsub(pt[2], model_ext.ymin)) >>

\* the end points of the LINEs of a block, as its symbol stores them
SymbolPoints(d, ref) ==
  UNION { {transform_OCS(d.object[j].start, d.object[j].extrusion),
           transform_OCS(d.object[j].end, d.object[j].extrusion)} :
          j \in {owned_entities(d, ref)[k] : k \in 1..Len(owned_entities(d, ref))}
                \cap {j \in 1..Len(d.object) : d.object[j].kind = "LINE"} }

\* C12: for every INSERT emitted in a rendered space and every point p stored
\* in the block's symbol, the emitted <use> transform maps p to the viewport
\* image of the flattened point (S . (p - B) rotated by R) + I, for R = 0 and
\* R a multiple of 90 degrees, for B = (0,0) and B # (0,0).
C12_UseMatchesFlattening ==
  [][(OutputObjectStep /\ in_block_definition = 0
        /\ D.object[StepIndex].kind = "INSERT")
     => \A k \in 1..Len(StepPrinted) :
          StepPrinted[k].tag \in UseTags
          => LET insert == D.object[StepIndex]
                 base_pt == D.object[insert.block_header.obj].base_pt
             IN \A p \in SymbolPoints(D, insert.block_header) :
                  ApplyUse(StepPrinted[k], p)
                    = ViewportImage(Flattened(insert, base_pt, p))
    ]_vars

-----------------------------------------------------------------------------
(* C13: the order of the document *)

StructureTags == {"prologue", "defs-open", "g-open", "comment-name", "g-close",
                  "defs-close", "svg-close"}

\* the positions of output_SVG at which the extents pass is over
AfterExtents == {"paper_space", "model_space", "block", "defs", "entries", "return"}

IsPrefix(s, t) == Len(s) <= Len(t) /\ SubSeq(t, 1, Len(s)) = s

\* what the sink received, reduced to the structural lines and, for every
\* chunk that carries an element id, the entity the element belongs to
RECURSIVE Outline(_)
Outline(chunks) ==
  IF chunks = <<>> THEN <<>>
  ELSE (IF chunks[1].tag \in StructureTags
        THEN << <<chunks[1].tag, chunks[1].href>> >>
        ELSE IF chunks[1].id # <<>> THEN << <<"entity", chunks[1].id[1]>> >>
        ELSE <<>>)
       \o Outline(Tail(chunks))

\* one block as the document shows it: the line with its name, its entities
\* in owner-list order, the closing tag of its group
BlockOutline(d, ref) ==
  IF ~IsBlock(d, ref) THEN <<>>
  ELSE LET hdr == d.object[ref.obj]
           group == /\ ~hdr.name.null
                    /\ IsGroup([htmlescape(hdr.name) EXCEPT !.chars = ReplaceDashes(@)])
           RECURSIVE Entities(_)
           Entities(k) ==
             IF k > Len(hdr.owned) THEN <<>>
             ELSE Outline(output_object(d, hdr.owned[k]).printed) \o Entities(k + 1)
       IN (IF hdr.name.null THEN <<>>
           ELSE IF group THEN << <<"g-open", ref.absolute_ref>> >>
           ELSE << <<"comment-name", 0>> >>)
          \o Entities(1)
          \o (IF group THEN << <<"g-close", 0>> >> ELSE <<>>)

\* the blocks of the block control table, in table order
RECURSIVE TableOutline(_, _)
TableOutline(d, refs) ==
  IF refs = <<>> THEN <<>>
  ELSE (IF refs[1] = NULLREF THEN <<>> ELSE BlockOutline(d, refs[1]))
       \o TableOutline(d, Tail(refs))

\* paper space was visited and output_object counted one of its entities
PaperCounted(d) ==
  /\ mspace = 0
  /\ IsBlock(d, dwg_paper_space_ref(d))
  /\ \E k \in 1..Len(owned_entities(d, dwg_paper_space_ref(d))) :
       d.object[owned_entities(d, dwg_paper_space_ref(d))[k]].kind \in DispatchedKinds

\* the whole document: prologue, paper space, model space, <defs>, the table's
\* blocks, </defs>, </svg>
DocumentOutline(d) ==
  << <<"prologue", 0>> >>
  \o (IF mspace = 0 /\ dwg_paper_space_ref(d) # NULLREF
      THEN BlockOutline(d, dwg_paper_space_ref(d)) ELSE <<>>)
  \o (IF ~PaperCounted(d) /\ dwg_model_space_ref(d) # NULLREF
      THEN BlockOutline(d, dwg_model_space_ref(d)) ELSE <<>>)
  \o << <<"defs-open", 0>> >>
  \o TableOutline(d, d.entries)
  \o << <<"defs-close", 0>>, <<"svg-close", 0>> >>

\* C13: in every rendering call the sink receives, in this order and each
\* once: the prologue with the viewBox, the paper-space entities (when
\* emitted), the model-space entities (when emitted), <defs>, the block
\* definitions in block-control-table order, </defs>, </svg>; within each
\* block the entities come in owner-list order; nothing is written before the
\* extents pass has finished, and what was written is never taken back.
C13_DocumentOrder ==
  /\ [](pc = "output_SVG" => handed = <<>>)
  /\ [][(handed = <<>> /\ handed' # <<>>)
        => (pc = "output_SVG" /\ model_ext' = compute_modelspace_extents(D))]_vars
  /\ [][handed' = <<>> \/ IsPrefix(handed, handed')]_vars
  /\ [](pc \in AfterExtents => IsPrefix(Outline(handed), DocumentOutline(D)))
  /\ [](pc = "return" => Outline(handed) = DocumentOutline(D))

\* a finished document with a paper-space entity in its body and the groups
\* of blocks 7 and 8, in that order, between <defs> and </defs>
C13_Witness ==
  /\ pc = "return"
  /\ mspace = 0
  /\ IsBlock(D, dwg_paper_space_ref(D))
  /\ LET o == Outline(handed)
     IN /\ Len(o) > 9
        /\ o[2] = <<"comment-name", 0>>
        /\ o[3][1] = "entity"
        /\ o[3][2] \in Owned(D, dwg_paper_space_ref(D).obj)
        /\ \E a, b \in 4..Len(o) :
             /\ a < b
             /\ o[a - 1] = <<"defs-open", 0>>
             /\ o[a] = <<"g-open", 7>>
             /\ o[b] = <<"g-open", 8>>

-----------------------------------------------------------------------------
(* C14: model space as the fallback of paper space *)

\* how many of the chunks belong to an entity: all but the structural lines
Fragments(chunks) == Len(SelectSeq(chunks, LAMBDA c : c.tag \notin StructureTags))

\* output_SVG is about to decide on model space, after a paper space
AfterPaperSpace ==
  /\ pc = "model_space"
  /\ mspace = 0
  /\ dwg_paper_space_ref(D) # NULLREF
  /\ IsBlock(D, dwg_model_space_ref(D))

\* C14: with mspace_only = 0 and a paper-space reference present, model space
\* is emitted exactly when paper space emitted zero entity fragments; so when
\* paper space is empty or all its entities were skipped (invisible, NaN,
\* unsupported kind), the body holds the drawable model-space entities.
C14_ModelSpaceFallback ==
  /\ [][AfterPaperSpace => ((pc' = "block") <=> (Fragments(handed) = 0))]_vars
  /\ [](pc = "defs" /\ mspace = 0 /\ dwg_paper_space_ref(D) # NULLREF
          /\ IsBlock(D, dwg_model_space_ref(D))
          /\ (IsBlock(D, dwg_paper_space_ref(D))
              => \A j \in Owned(D, dwg_paper_space_ref(D).obj) : ~Renderable(D, j))
        => \A i \in Owned(D, dwg_model_space_ref(D).obj) :
             Renderable(D, i) => \E k \in 1..Len(handed) : handed[k].id = <<i>>)

-----------------------------------------------------------------------------
(* C15: the viewport when no entity contributes to the extents *)

\* no entity of a visited space added a point to the extents
NothingMeasured(d) ==
  LET paper == IF mspace = 0 /\ dwg_paper_space_ref(d) # NULLREF
               THEN compute_block_extents(extents_init, d, dwg_paper_space_ref(d))
               ELSE extents_init
      both == IF dwg_model_space_ref(d) # NULLREF
              THEN compute_block_extents(paper, d, dwg_model_space_ref(d))
              ELSE paper
  IN both.initialized = 0

\* the extents stored in the header
HeaderExtents(d) ==
  [xmin |-> dwg_model_x_min(d), ymin |-> dwg_model_y_min(d),
   xmax |-> dwg_model_x_max(d), ymax |-> dwg_model_y_max(d)]

\* the header extents span no positive width and no positive height
HeaderUnusable(d) ==
  /\ C5_Unusable(fsub(dwg_model_x_max(d), dwg_model_x_min(d)))
  /\ C5_Unusable(fsub(dwg_model_y_max(d), dwg_model_y_min(d)))

\* C15: when no visited entity contributes a point to the extents, the
\* viewport takes the header extents; when those are missing or non-positive
\* the viewBox is "0 0 100 100" and the viewport origin is (0,0); a model
\* with no entities yields a body without any entity element.
C15_HeaderFallback ==
  (pc \in AfterExtents /\ NothingMeasured(D))
  => /\ model_ext = HeaderExtents(D)
     /\ HeaderUnusable(D)
        => /\ handed[1].args = <<F(0), F(0), F(100), F(100)>>
           /\ model_ext.xmin = F(0) /\ model_ext.ymin = F(0)
     /\ (\A b \in Blocks(D) : Owned(D, b) = {})
        => \A k \in 1..Len(handed) : handed[k].id = <<>>

-----------------------------------------------------------------------------
(* C16: mspace_only *)

\* the drawing with nothing owned by its paper-space block
WithoutPaper(d) ==
  [d EXCEPT !.object[dwg_paper_space_ref(d).obj].owned = <<>>]

\* an INSERT of the drawing names the block
InsertOf(d, b) ==
  \E j \in 1..Len(d.object) :
    d.object[j].kind = "INSERT" /\ d.object[j].block_header.obj = b

\* a chunk of an entity the paper-space block owns was handed out
PaperEntityPrinted(d) ==
  \E k \in 1..Len(handed) :
    /\ handed[k].id # <<>>
    /\ handed[k].id[1] \in Owned(d, dwg_paper_space_ref(d).obj)

\* with mspace_only zero and a paper-space reference, paper space is visited
\* first by both passes: the extents are those of paper space extended by
\* model space, and the first block after the prologue is paper space
PaperSpaceFirst ==
  /\ [](pc \in AfterExtents /\ mspace = 0 /\ dwg_paper_space_ref(D) # NULLREF
        => LET ext == compute_block_extents(
                        compute_block_extents(extents_init, D, dwg_paper_space_ref(D)),
                        D, dwg_model_space_ref(D))
           IN ext.initialized # 0
              => model_ext = [xmin |-> ext.xmin, ymin |-> ext.ymin,
                              xmax |-> ext.xmax, ymax |-> ext.ymax])
  /\ [][(pc = "paper_space" /\ mspace = 0 /\ IsBlock(D, dwg_paper_space_ref(D)))
        => (Len(handed) = 1 /\ pc' = "block" /\ cur'.ref = dwg_paper_space_ref(D)
            /\ cur'.site = "paper_space")]_vars

-----------------------------------------------------------------------------
(* C17: in_block_definition *)

LowerCase(cs) == [i \in 1..Len(cs) |-> tolower(cs[i])]

\* the block header has a name that is neither *Model_Space nor begins with
\* *Paper_Space, letter case ignored
SymbolName(d, ref) ==
  LET name == d.object[ref.obj].name
  IN /\ ~name.null
     /\ LowerCase(name.chars) # LowerCase(ModelSpaceName.chars)
     /\ \/ Len(name.chars) < Len(PaperSpaceName.chars)
        \/ LowerCase(SubSeq(name.chars, 1, Len(PaperSpaceName.chars)))
             # LowerCase(PaperSpaceName.chars)

\* more <g id="symbol-..."> opened than closed
RECURSIVE OpenGroups(_)
OpenGroups(chunks) ==
  IF chunks = <<>> THEN 0
  ELSE (CASE chunks[1].tag = "g-open" -> 1
          [] chunks[1].tag = "g-close" -> -1
          [] OTHER -> 0)
       + OpenGroups(Tail(chunks))

-----------------------------------------------------------------------------
(* C20: the stroke width *)

\* the lineweight of the entity in 1/100 mm, the layer's when it says ByLayer
\* and the layer exists
DecodedLineweight(d, e) ==
  IF dxf_cvt_lweight(e.linewt) = -1
     /\ e.layer.obj \in 1..Len(d.object) /\ d.object[e.layer.obj].kind = "LAYER"
  THEN dxf_cvt_lweight(d.object[e.layer.obj].linewt)
  ELSE dxf_cvt_lweight(e.linewt)

\* the stroke width of the claim, in 1/100 px: w / 100 mm, at least 0.1
StrokeWidth(w) == IF w <= 10 THEN F(10) ELSE F(w)

\* C20: entity_lweight decodes the entity's lineweight code to 1/100 mm,
\* takes the layer's decoded lineweight for ByLayer (-1) when the layer
\* exists, yields 0.1 for a value <= 0 and otherwise w / 100, never less
\* than 0.1 (w = 211 yields 2.11, w = 5 yields 0.1).
C20_StrokeWidth ==
  [][OutputObjectStep
     => \A k \in 1..Len(StepPrinted) :
          StepPrinted[k].tag \in {"style", "style-outline"}
          => StepPrinted[k].args[1]
               = StrokeWidth(DecodedLineweight(D, D.object[StepIndex]))]_vars

-----------------------------------------------------------------------------
(* C19: two rendering calls on two threads *)

\* the positions of the running thread inside its rendering call
InsideCall == {"output_SVG"} \cup AfterExtents

\* the bytes a sink holds (the buffer of a string call, the FILE of
\* dwg_write_svg) are the bytes of the chunks its own call printed
OwnBytes(t) ==
  (IF t.api.name = "dwg_write_svg" THEN t.file ELSE t.buf.chunks)
  = SelectSeq(t.handed, LAMBDA c : c.len # 0)

\* the running thread, as far as OwnBytes looks at it
Running == [api |-> api, buf |-> buf, file |-> file, handed |-> handed]

\* the call of the thread that waits is still running
PeerInsideCall == peer.pc \in InsideCall

\* C19: when the steps of two rendering calls (two threads, each with its
\* own model and its own sink) interleave, each sink receives exactly the
\* bytes of its own document, and neither call reads a viewport, mspace flag,
\* in_block_definition value or writer callback set by the other; after a
\* call returns the writer callback is NULL again.
C19_CallsAreIsolated ==
  /\ [](pc \in InsideCall
        => /\ OwnBytes(Running)
           /\ mspace = api.mspace_only
           /\ g_svg_writer = (IF api.name = "dwg_write_svg" THEN "file" ELSE "buffer")
           /\ g_svg_writer_user = "own")
  /\ [](PeerInsideCall => OwnBytes(peer))
  /\ [](pc \in AfterExtents
        => /\ model_ext = compute_modelspace_extents(D)
           /\ page = [width |-> page_side(fsub(model_ext.xmax, model_ext.xmin)),
                      height |-> page_side(fsub(model_ext.ymax, model_ext.ymin))])
  /\ [](pc \in AfterExtents \ {"block"} => in_block_definition = 0)
  /\ [](pc = "block" => (in_block_definition # 0 <=> cur.is_g # 0))
  /\ [][(pc = "return" /\ pc' = "idle") => g_svg_writer' = "NULL"]_vars

\* both calls have returned 0, and the sink of one of them holds chunks the
\* other call printed
C19_Mixed ==
  /\ pc = "idle" /\ peer.pc = "idle"
  /\ env.n = ThreadCalls
  /\ caller.rc = 0 /\ peer.caller.rc = 0
  /\ caller.svg_out = "data" /\ peer.caller.svg_out = "data"
  /\ handed # <<>> /\ peer.handed # <<>>
  /\ ~OwnBytes(Running)

-----------------------------------------------------------------------------
(* C18: termination of the two passes *)

\* block a holds a visible, NaN-free INSERT of block b
Inserts(d, a, b) ==
  \E i \in Owned(d, a) :
    LET e == d.object[i]
    IN /\ e.kind = "INSERT"
       /\ e.invisible = 0
       /\ ~(e.layer.obj # 0 /\ d.object[e.layer.obj].kind = "LAYER"
            /\ (d.object[e.layer.obj].off # 0 \/ d.object[e.layer.obj].frozen # 0))
       /\ ~(isnan_3BD(e.ins_pt) \/ isnan_3BD(e.extrusion) \/ isnan_3BD(e.scale)
            \/ isnan(e.rotation))
       /\ e.block_header.absolute_ref # 0
       /\ e.block_header.obj = b

\* the blocks reached from the blocks of `from` along INSERTs, `from` included
RECURSIVE ReachedFrom(_, _)
ReachedFrom(d, from) ==
  LET more == {b \in Blocks(d) : \E a \in from : Inserts(d, a, b)}
  IN IF more \subseteq from THEN from ELSE ReachedFrom(d, from \cup more)

\* the spaces the extents pass visits
VisitedSpaces(d) ==
  {r.obj : r \in {ref \in {dwg_model_space_ref(d)}
                           \cup (IF mspace = 0 THEN {dwg_paper_space_ref(d)} ELSE {}) :
                    IsBlock(d, ref)}}

\* block b is reached again from the blocks it inserts
OnCycle(d, b) == b \in ReachedFrom(d, {c \in Blocks(d) : Inserts(d, b, c)})

\* a block reachable from a visited space inserts itself or an ancestor
CycleReached(d) == \E b \in ReachedFrom(d, VisitedSpaces(d)) : OnCycle(d, b)

\* the INSERT -> block reference graph has a cycle somewhere
CycleAnywhere(d) == \E b \in Blocks(d) : OnCycle(d, b)

\* C18: the extents pass terminates on every model whose INSERT -> block
\* reference graph is acyclic, and it has no guard against cycles: when a
\* block reachable from a visited space contains a visible, NaN-free INSERT of
\* itself or of an ancestor block, compute_entity_extents and
\* compute_block_extents recurse without bound (here: up to MaxDepth frames)
\* and the call never reaches the prologue. The render pass never recurses
\* through INSERT and terminates on every finite model.
C18_Termination ==
  /\ (pc = "extents" /\ ~CycleReached(N)) ~> (pc = "paper_space")
  /\ [](pc = "extents" /\ ~CycleReached(N)
        => Len(stack) <= Cardinality(Blocks(N)) + 1)
  /\ [][(pc = "extents" /\ pc' = "paper_space")
        => model_ext' = compute_modelspace_extents(N)]_vars
  /\ [][(pc = "extents" /\ CycleReached(N)) => (pc' = "extents" /\ handed' = <<>>)]_vars
  /\ (pc = "extents" /\ CycleReached(N)) ~> (Len(stack) = MaxDepth)
  /\ [](pc \in AfterExtents => stack = <<>>)
  /\ (pc = "paper_space") ~> (pc = "return")

\* the recursion through a block that inserts itself has filled the stack:
\* the frames above model space are all frames of that one block
C18_Witness ==
  /\ pc = "extents"
  /\ CycleReached(N)
  /\ Len(stack) = MaxDepth
  /\ handed = <<>>
  /\ \A k \in 3..MaxDepth : stack[k].ref = Ref(7)

\* the extents pass has returned on a drawing whose cycle no visited space
\* reaches, and the render pass has printed the block with its own <use>
C18_WitnessRendered ==
  /\ pc = "return"
  /\ CycleAnywhere(N)
  /\ ~CycleReached(N)
  /\ \E k \in 1..Len(handed) :
       handed[k].tag \in {"use-matrix", "use-rotate"} /\ handed[k].href = 7

-----------------------------------------------------------------------------
(* C21: the colour resolver *)

\* the entity of the output_object call of a step of the gallery
GStepIndex == owned_entities(G, cur.ref)[cur.k]

\* bit b of v is set
BitSet(v, b) == (v \div (2 ^ b)) % 2 = 1

\* the ACI colour of an index: a name for 1..7, the palette entry for 8..255
C21_Aci(index) ==
  IF index \in 1..7
  THEN Color(<<"red", "yellow", "green", "cyan", "blue", "magenta", "white">>[index], 0)
  ELSE IF index \in 8..255 THEN Color("#palette", index)
  ELSE Color("black", 0)

\* the rules for one specifier {index, rgb, flag}, in their priority
C21_Specifier(c) ==
  IF c.index \in 1..255 THEN C21_Aci(c.index)
  ELSE IF BitSet(c.flag, 7) /\ ~BitSet(c.flag, 6)
  THEN Color("#rrggbb", c.rgb.lo)
  ELSE IF c.index = 256 /\ c.rgb.hi = 195 THEN C21_Aci(c.rgb.lo % 256)
  ELSE Color("black", 0)

\* the rules for an entity: its layer's colour when it says ByLayer and the
\* layer resolves
C21_Entity(d, e) ==
  IF e.color.index = 256 /\ e.layer.obj \in 1..Len(d.object)
     /\ d.object[e.layer.obj].kind = "LAYER"
  THEN C21_Specifier(d.object[e.layer.obj].color)
  ELSE C21_Specifier(e.color)

\* the value of a string of hexadecimal digits
RECURSIVE HexValue(_)
HexValue(str) ==
  IF str = <<>> THEN 0
  ELSE 16 * HexValue(SubSeq(str, 1, Len(str) - 1))
       + (CHOOSE v \in 0..15 : HexDigits[v + 1] = str[Len(str)])

\* some entries of the palette
C21_Entries == {[r |-> r, g |-> g, b |-> b] : r, g, b \in {0, 10, 255}}

\* the printf calls that print a colour
C21_Coloured == {"style", "style-outline", "style-fill", "text"}

\* the string is one of the eight names, or '#' and six hexadecimal digits
\* that spell `value`
C21_NameOrHex(c, str, value) ==
  IF c.name \in {"#palette", "#rrggbb"}
  THEN /\ Len(str) = 7
       /\ str[1] = "#"
       /\ \A k \in 2..7 : \E v \in 1..16 : HexDigits[v] = str[k]
       /\ HexValue(Tail(str)) = value
  ELSE /\ c.name \in {"red", "yellow", "green", "cyan", "blue", "magenta", "white",
                      "black"}
       /\ str = ColorNames[c.name]

\* C21: every colour printed for an entity follows the rules in this
\* priority: index 256 with a resolvable layer takes the layer's colour by
\* the same rules; index 1..7 gives the seven names; index 8..255 the palette
\* entry as #rrggbb; otherwise flag bit 0x80 without bit 0x40 gives #rrggbb of
\* the low 24 bits of rgb; otherwise index 256 with top byte 0xC3 gives the
\* ACI colour of the low byte; everything else is black.  The string is one
\* of the eight names or seven characters '#rrggbb'.
C21_ColourRules ==
  [][OutputObjectStep
     => \A k \in 1..Len(StepPrinted) :
          StepPrinted[k].tag \in C21_Coloured
          => LET c == StepPrinted[k].color IN
             /\ c = C21_Entity(G, G.object[GStepIndex])
             /\ \A entry \in C21_Entries :
                  C21_NameOrHex(c, color_string(c, entry),
                                IF c.name = "#rrggbb" THEN c.rgb
                                ELSE 65536 * entry.r + 256 * entry.g + entry.b)]_vars

\* a line that says ByLayer, with a true colour of its own behind it, on a
\* layer whose colour is the ACI 200 in the 0xC3 encoding, has been printed
\* with the palette entry 200
C21_Witness ==
  /\ pc = "block"
  /\ in_block_definition = 0
  /\ cur.k = 3
  /\ Len(owned_entities(G, cur.ref)) >= 2
  /\ handed # <<>>
  /\ LET e == G.object[owned_entities(G, cur.ref)[2]] IN
     /\ e.kind = "LINE"
     /\ e.color = CMC(256, BL(0, 1193046), 128)
     /\ e.layer = Ref(1)
     /\ G.object[1].color = CMC(256, BL(195, 200), 192)
  /\ handed[Len(handed)].tag = "style"
  /\ handed[Len(handed)].color = Color("#palette", 200)
  /\ color_string(handed[Len(handed)].color, [r |-> 255, g |-> 0, b |-> 10])
       = <<"#", "f", "f", "0", "0", "0", "a">>

-----------------------------------------------------------------------------
(* C22: the corners of a polygon *)

\* the corner as the emitter prints it: a SOLID's through the OCS and the
\* viewport transform, a 3DFACE's as stored
C22_Printed(e, corner) ==
  IF e.kind = "SOLID"
  THEN LET c == transform_OCS_2d(corner, e.extrusion)
       IN <<transform_X(c[1]), transform_Y(c[2])>>
  ELSE <<corner[1], corner[2]>>

\* C22: for every SOLID, and every 3DFACE with invis_flags = 0, the emitted
\* <polygon> lists the four corners in the order corner1, corner2, corner4,
\* corner3.
C22_PolygonOrder ==
  [][OutputObjectStep
     => \A k \in 1..Len(StepPrinted) :
          StepPrinted[k].tag = "polygon"
          => LET e == G.object[GStepIndex]
             IN StepPrinted[k].args
                  = C22_Printed(e, e.corner1) \o C22_Printed(e, e.corner2)
                    \o C22_Printed(e, e.corner4) \o C22_Printed(e, e.corner3)]_vars

-----------------------------------------------------------------------------
(* C23: the circles that are skipped *)

\* the <circle> elements among the printf calls of a step
C23_Circles == SelectSeq(StepPrinted, LAMBDA c : c.tag = "circle")

\* C23: a CIRCLE whose radius is 0 is skipped, and so is one whose only
\* defect is a NaN component in its extrusion; every other visible CIRCLE
\* with NaN-free centre, radius and extrusion emits exactly one <circle>
\* with r equal to its radius.
C23_SkippedCircles ==
  [][(OutputObjectStep /\ G.object[GStepIndex].kind = "CIRCLE")
     => LET e == G.object[GStepIndex] IN
        IF e.radius = F(0) \/ isnan_3BD(e.extrusion)
        THEN C23_Circles = <<>>
        ELSE (~entity_invisible(G, e) /\ ~isnan_3BD(e.center) /\ ~isnan(e.radius))
             => /\ Len(C23_Circles) = 1
                /\ C23_Circles[1].args[3] = e.radius]_vars

\* the same without the circles of radius 0: what the emitter does
C23_WithoutRadiusZero ==
  [][(OutputObjectStep /\ G.object[GStepIndex].kind = "CIRCLE"
        /\ G.object[GStepIndex].radius # F(0))
     => LET e == G.object[GStepIndex] IN
        IF isnan_3BD(e.extrusion)
        THEN C23_Circles = <<>>
        ELSE (~entity_invisible(G, e) /\ ~isnan_3BD(e.center) /\ ~isnan(e.radius))
             => /\ Len(C23_Circles) = 1
                /\ C23_Circles[1].args[3] = e.radius]_vars

-----------------------------------------------------------------------------
(* C24: the string buffer when every reallocation succeeds *)

\* the chunks of a sequence of writes that hold bytes
C24_NonEmpty(written) == SelectSeq(written, LAMBDA c : c.len # 0)

RECURSIVE C24_Bytes(_)
C24_Bytes(chunks) ==
  IF chunks = <<>> THEN 0 ELSE chunks[1].len + C24_Bytes(Tail(chunks))

\* 8192 * 2^k for some k >= 0
RECURSIVE C24_IsCap(_)
C24_IsCap(cap) ==
  \/ cap = 8192
  \/ cap > 8192 /\ cap % 2 = 0 /\ C24_IsCap(cap \div 2)

\* the buffer after the writes `written`: untouched while no byte has been
\* written, else the concatenation with its terminator inside the capacity
C24_Holds(b, written) ==
  IF C24_NonEmpty(written) = <<>> THEN b = ZeroBuffer
  ELSE /\ b.alloc
       /\ b.chunks = C24_NonEmpty(written)
       /\ b.len = C24_Bytes(written)
       /\ b.len + 1 <= b.cap
       /\ b.nul = b.len
       /\ C24_IsCap(b.cap)

\* lengths of a further write
C24_Lens == {0, 1, 100, 8191, 8192, 20000}

\* the capacity after a write of len bytes: kept when the bytes and the
\* terminator fit, else doubled until they do
C24_Grown(before, after, len) ==
  IF before.len + len + 1 <= before.cap THEN after.cap = before.cap
  ELSE /\ after.cap > before.cap
       /\ after.cap >= before.len + len + 1
       /\ \/ after.cap = (IF before.cap = 0 THEN 8192 ELSE 2 * before.cap)
          \/ after.cap \div 2 < before.len + len + 1

-----------------------------------------------------------------------------
(* C25: the string buffer when a reallocation fails *)

\* s is a prefix of t
C25_IsPrefix(s, t) == Len(s) <= Len(t) /\ s = SubSeq(t, 1, Len(s))

\* dwg_data_to_svg has returned after a rendering in which the buffer writer
\* dropped a chunk
C25_ReturnedTruncated ==
  /\ pc = "idle"
  /\ api.name = "dwg_data_to_svg"
  /\ handed # <<>>
  /\ caller.rc # 0 \/ caller.svg_out = "data"
  /\ buf.chunks # C24_NonEmpty(handed)

\* C25: when a reallocation in the string-buffer sink fails the failed write
\* leaves contents, len and cap unchanged, the bytes finally returned are a
\* prefix of the document of a failure-free run (no chunk written after a
\* dropped chunk is in the buffer), and the call still returns 0, not
\* OUTOFMEM.
C25_SilentTruncation ==
  /\ g_svg_writer = "buffer"
     => \A len \in C24_Lens :
          BufferGrows(buf, [len |-> len])
          => dwg_svg_buffer_writer(buf, [len |-> len], FALSE) = buf
  /\ C25_ReturnedTruncated
     => /\ caller.rc = 0
        /\ C25_IsPrefix(buf.chunks, C24_NonEmpty(handed))

\* the part that holds: a failed write changes nothing, and what is returned
\* with code 0 is a subsequence of the document
C25_FailedWriteChangesNothing ==
  g_svg_writer = "buffer"
  => \A len \in C24_Lens :
       BufferGrows(buf, [len |-> len])
       => dwg_svg_buffer_writer(buf, [len |-> len], FALSE) = buf

-----------------------------------------------------------------------------
(* C26: the transform attribute of a text *)

\* the viewport anchor of a TEXT / ATTDEF: the alignment point when an
\* alignment is set, else the insertion point
C26_Anchor(e) ==
  LET pt == transform_OCS_2d(IF e.horiz_alignment # 0 \/ e.vert_alignment # 0
                              THEN e.alignment_pt ELSE e.ins_pt, e.extrusion)
  IN <<transform_X(pt[1]), transform_Y(pt[2])>>

\* the effective width factor: the entity's, else the style's, else 1.0
C26_WidthFactor(d, e) ==
  IF e.width_factor # F(0) THEN e.width_factor
  ELSE IF e.style.obj # 0 /\ d.object[e.style.obj].width_factor # F(0)
  THEN d.object[e.style.obj].width_factor
  ELSE F(1)

\* SVG scale(s 1) and rotate(deg cx cy) applied to a point, deg a multiple
\* of 90
C26_Scale(s, p) == <<fmul(s, p[1]), p[2]>>
C26_Rotate(deg, cx, cy, p) ==
  LET q == fdiv(deg, F(90))
      dx == fsub(p[1], cx)
      dy == fsub(p[2], cy)
  IN << fadd(cx, fsub(fmul(dx, cos(q)), fmul(dy, sin(q)))),
        fadd(cy, fadd(fmul(dx, sin(q)), fmul(dy, cos(q)))) >>

\* the transform attribute printed after a <text, applied to a point: the
\* rightmost function of the list first
C26_Transformed(c, p) ==
  CASE c.tag = "scale" -> C26_Scale(c.args[1], p)
    [] c.tag = "rotate" -> C26_Rotate(c.args[1], c.args[2], c.args[3], p)
    [] c.tag = "rotate-scale" ->
         C26_Rotate(c.args[1], c.args[2], c.args[3], C26_Scale(c.args[4], p))
    [] OTHER -> p

\* the step printed a text element for a TEXT or ATTDEF
C26_TextStep ==
  /\ OutputObjectStep
  /\ G.object[GStepIndex].kind \in {"TEXT", "ATTDEF"}
  /\ StepPrinted # <<>>

\* the emitted x is x / wf when wf differs from 1 and x otherwise, and the
\* emitted transform takes the emitted point to the anchor
C26_Restores(e, text, transform) ==
  LET anchor == C26_Anchor(e)
      wf == C26_WidthFactor(G, e)
  IN /\ text.tag = "text"
     /\ text.args[1] = (IF wf # F(1) THEN fdiv(anchor[1], wf) ELSE anchor[1])
     /\ text.args[2] = anchor[2]
     /\ C26_Transformed(transform, <<text.args[1], text.args[2]>>) = anchor

\* C26: for every TEXT/ATTDEF with viewport anchor (x, y), effective width
\* factor wf and rotation, the emitted x attribute is x / wf when wf differs
\* from 1 and x otherwise, and the emitted transform attribute applied to the
\* emitted (x, y) yields the anchor: with scale(wf 1) alone, with
\* rotate(-deg ...) alone, and with rotate(...) scale(...).
C26_TransformRestoresAnchor ==
  [][C26_TextStep
     => C26_Restores(G.object[GStepIndex], StepPrinted[1], StepPrinted[2])]_vars

\* the same for the texts that are not both rotated and scaled
C26_SingleTransform ==
  [][(C26_TextStep /\ StepPrinted[2].tag # "rotate-scale")
     => C26_Restores(G.object[GStepIndex], StepPrinted[1], StepPrinted[2])]_vars

-----------------------------------------------------------------------------
(* C27: construction lines and rays clipped to the model extents *)

\* the point P + (num / den) * D, den > 0, lies in the model-extents box
C27_InBox(e, num, den) ==
  /\ den * model_ext.xmin[2] <= den * e.point[1][2] + num * e.vector[1][2]
  /\ den * e.point[1][2] + num * e.vector[1][2] <= den * model_ext.xmax[2]
  /\ den * model_ext.ymin[2] <= den * e.point[2][2] + num * e.vector[2][2]
  /\ den * e.point[2][2] + num * e.vector[2][2] <= den * model_ext.ymax[2]

\* the parameters at which the line crosses the four sides of the box, and
\* the parameter of P, as fractions <<num, den>> with den > 0
C27_Crossings(e) ==
  LET Frac(num, den) == IF den < 0 THEN <<-num, -den>> ELSE <<num, den>>
  IN {<<0, 1>>}
     \cup {Frac(b[2] - e.point[1][2], e.vector[1][2]) :
             b \in IF e.vector[1][2] = 0 THEN {} ELSE {model_ext.xmin, model_ext.xmax}}
     \cup {Frac(b[2] - e.point[2][2], e.vector[2][2]) :
             b \in IF e.vector[2][2] = 0 THEN {} ELSE {model_ext.ymin, model_ext.ymax}}

\* the line (for a RAY: its half from P on) has a point in the box
C27_Hits(e) ==
  \E t \in C27_Crossings(e) :
    /\ e.kind = "RAY" => t[1] >= 0
    /\ C27_InBox(e, t[1], t[2])

\* the SVG point (a, b) is a point of the line, of its half from P on for a
\* RAY, and lies in the box
C27_OnLineInBox(e, a, b) ==
  /\ isfinite(a) /\ isfinite(b)
  /\ LET x == a[2] + model_ext.xmin[2]
         y == model_ext.ymin[2] + page.height[2] - b[2]
         dx == x - e.point[1][2]
         dy == y - e.point[2][2]
     IN /\ dx * e.vector[2][2] = dy * e.vector[1][2]
        /\ e.kind = "RAY" => dx * e.vector[1][2] + dy * e.vector[2][2] >= 0
        /\ model_ext.xmin[2] <= x /\ x <= model_ext.xmax[2]
        /\ model_ext.ymin[2] <= y /\ y <= model_ext.ymax[2]

C27_Paths == SelectSeq(StepPrinted, LAMBDA c : c.tag = "path")

\* C27: for every XLINE and RAY with NaN-free point P and direction D the
\* emitted path 'M a,b L c,d' is the part of the (semi-)infinite line
\* {P + t * D} inside the model-extents box, in SVG coordinates: both
\* endpoints are points of the line and lie within the box, and nothing is
\* emitted when the line misses the box.
C27_ClippedToExtents ==
  [][(OutputObjectStep /\ in_block_definition = 0
        /\ G.object[GStepIndex].kind \in {"XLINE", "RAY"})
     => LET e == G.object[GStepIndex] IN
        IF C27_Hits(e)
        THEN \A k \in 1..Len(C27_Paths) :
               /\ C27_OnLineInBox(e, C27_Paths[k].args[1], C27_Paths[k].args[2])
               /\ C27_OnLineInBox(e, C27_Paths[k].args[3], C27_Paths[k].args[4])
        ELSE C27_Paths = <<>>]_vars

-----------------------------------------------------------------------------
(* C28: the turning direction of an arc shown through an INSERT *)

\* the INSERTs that show block b unrotated with positive scales
C28_Uses(b) ==
  {j \in 1..Len(G.object) :
     /\ G.object[j].kind = "INSERT"
     /\ G.object[j].block_header.obj = b
     /\ fgt(G.object[j].scale[1], F(0)) /\ fgt(G.object[j].scale[2], F(0))
     /\ G.object[j].rotation = F(0)
     /\ Len(output_INSERT(G, j)) = 2}

\* the sign of the determinant of matrix(a 0 0 d tx ty) of the <use>
C28_Det(j) ==
  LET use == output_INSERT(G, j)[2]
  IN fsign(fmul(use.args[1], use.args[2]))

\* a sweep flag seen through a transform: a negative determinant mirrors the
\* drawing and turns the arc the other way
C28_Composed(sweep, det) == IF det < 0 THEN 1 - sweep ELSE sweep

\* the arc commands among the printf calls of a step
C28_ArcCommands == SelectSeq(StepPrinted, LAMBDA c : c.tag \in {"path-arc", "A"})

\* the flag the same arc gets when its entity is emitted in a rendered space:
\* 0 for an ARC, the flag of the bulge or of is_ccw for the arcs of a HATCH
C28_InPlace(e, c) == IF e.kind = "ARC" THEN 0 ELSE c.ints[2]

\* C28: an ARC owned by a block and shown through an INSERT with positive
\* scale and rotation 0 turns the same way as the same ARC placed in model
\* space: the sweep flag emitted inside the symbol, composed with the sign of
\* the determinant of the <use> matrix, equals the sweep flag emitted for the
\* in-place ARC; the same for hatch bulge arcs and hatch circular-arc
\* segments.
C28_InstancingKeepsOrientation ==
  [][(OutputObjectStep /\ in_block_definition # 0)
     => \A k \in 1..Len(C28_ArcCommands) : \A j \in C28_Uses(cur.ref.obj) :
          C28_Composed(sweep_flag(C28_ArcCommands[k]), C28_Det(j))
            = C28_InPlace(G.object[GStepIndex], C28_ArcCommands[k])]_vars

-----------------------------------------------------------------------------
(* C29: well-formed path data *)

\* the chunks that open a d attribute without a command of their own, and
\* the chunks that close one
C29_Openers == {"path-open", "hatch-path-open"}
C29_Closers == {"d-end", "style-fill", "style-outline"}
C29_Commands == {"M", "L", "A", "A-rot", "Z"}

\* the commands of the d attribute opened by chunk p of the step, in order
RECURSIVE C29_Data(_)
C29_Data(p) ==
  IF p > Len(StepPrinted) \/ StepPrinted[p].tag \in C29_Closers THEN <<>>
  ELSE (IF StepPrinted[p].tag \in C29_Commands THEN <<StepPrinted[p].tag>> ELSE <<>>)
       \o C29_Data(p + 1)

C29_DAttributes ==
  {p \in 1..Len(StepPrinted) : StepPrinted[p].tag \in C29_Openers}

\* C29: every d attribute the renderer emits is either empty or begins with
\* an 'M' command before any 'L', 'A' or 'Z': for POLYLINE_2D (also when all
\* vertices are skipped and the closed flag is set), LWPOLYLINE, HATCH
\* polyline paths (also when the first point is NaN) and HATCH segment paths
\* (also when all segments are skipped or of an unsupported curve type).
C29_WellFormedPathData ==
  [][\A p \in C29_DAttributes :
       C29_Data(p + 1) = <<>> \/ C29_Data(p + 1)[1] = "M"]_vars

\* the same for the outlines the code guards: every LWPOLYLINE that is
\* printed opens its d attribute with the 'M' of its first point
C29_LwpolylineOpens ==
  [][\A p \in 1..Len(StepPrinted) :
       StepPrinted[p].tag = "comment" /\ StepPrinted[p].txt = <<"lwpolyline">>
         => StepPrinted[p + 1].tag = "path-M"]_vars

-----------------------------------------------------------------------------
(* C30: the viewport covers what is drawn *)

C30_Kinds ==
  {"LINE", "POINT", "CIRCLE", "ARC", "SOLID", "3DFACE", "POLYLINE_2D",
   "LWPOLYLINE", "TEXT", "ATTDEF", "IMAGE"}

\* the coordinate pairs printed by one chunk: end points, the centre of a
\* circle moved by its radius along each axis, corners, vertices, the anchor
\* of a text, the corner of an image
C30_Pairs(c) ==
  LET a == c.args
  IN CASE c.tag = "path" -> {<<a[1], a[2]>>, <<a[3], a[4]>>}
       [] c.tag = "circle-r0.1" -> {<<a[1], a[2]>>}
       [] c.tag = "circle" ->
            {<<fsub(a[1], a[3]), a[2]>>, <<fadd(a[1], a[3]), a[2]>>,
             <<a[1], fsub(a[2], a[3])>>, <<a[1], fadd(a[2], a[3])>>}
       [] c.tag = "path-arc" -> {<<a[1], a[2]>>, <<a[5], a[6]>>}
       [] c.tag = "polygon" -> {<<a[2 * k - 1], a[2 * k]>> : k \in 1..4}
       [] c.tag \in {"path-M", "M", "L", "edge", "edge-end", "text"} ->
            {<<a[1], a[2]>>}
       [] c.tag = "image" -> {<<a[7], a[8]>>}
       [] OTHER -> {}

C30_InView(xy) ==
  /\ fle(F(0), xy[1]) /\ fle(xy[1], page.width)
  /\ fle(F(0), xy[2]) /\ fle(xy[2], page.height)

C30_Drawn(kinds) ==
  /\ OutputObjectStep
  /\ in_block_definition = 0
  /\ G.object[GStepIndex].kind \in kinds

\* C30: for every entity emitted in a rendered space outside
\* block-definition mode (LINE, POINT, CIRCLE centre +- radius, ARC
\* endpoints, SOLID, 3DFACE, POLYLINE_2D, LWPOLYLINE, TEXT/ATTDEF anchor,
\* IMAGE corner), every emitted coordinate pair (X, Y) satisfies
\* 0 <= X <= page_width and 0 <= Y <= page_height.
C30_ViewportCoversDrawn ==
  [][C30_Drawn(C30_Kinds)
     => \A k \in 1..Len(StepPrinted) : \A xy \in C30_Pairs(StepPrinted[k]) :
          C30_InView(xy)]_vars

\* the same for the entities whose printed coordinates go through
\* transform_X / transform_Y from the points the extents pass adds
C30_TransformedInView ==
  [][C30_Drawn({"LINE", "POINT", "CIRCLE", "ARC", "POLYLINE_2D", "LWPOLYLINE"})
     => \A k \in 1..Len(StepPrinted) : \A xy \in C30_Pairs(StepPrinted[k]) :
          C30_InView(xy)]_vars

=============================================================================
